---- MODULE Spec2Model ----
(***************************************************************************)
(* A model of the invoice service: the HTTP handlers of handlers/*.go, the *)
(* queries of query.sql and the tables of schema.sql.                      *)
(*                                                                         *)
(* Every handler call runs one statement in autocommit mode.  A statement  *)
(* that writes is modelled in two steps, as PostgreSQL runs it under READ  *)
(* COMMITTED: the handler step validates the request and fixes what the    *)
(* statement's snapshot shows of its target row; the step named after the  *)
(* query then applies the statement to the committed rows (a row the       *)
(* snapshot showed and that was removed since is skipped), checks the      *)
(* constraints and answers.  A statement that only reads is one step.      *)
(***************************************************************************)
EXTENDS Integers, Sequences, FiniteSets, TLC

\* ------------------------------------------------------------------ bounds

\* Highest value each SERIAL sequence may issue.
MaxCustomers == 1
MaxProducts == 1
MaxInvoices == 2
MaxItems == 2

\* ------------------------------------------------------- program constants

ListLimit == 100
StatusOK == 200
StatusCreated == 201
StatusNoContent == 204
StatusBadRequest == 400
StatusNotFound == 404
StatusMethodNotAllowed == 405
StatusConflict == 409
StatusInternalServerError == 500
\* NUMERIC(10, 2): at most NumericPrecision - NumericScale digits before the point.
NumericPrecision == 10
NumericScale == 2

\* ------------------------------------------------------------------ strings

\* A Go string is the sequence of its characters.
Digits == <<"0", "1", "2", "3", "4", "5", "6", "7", "8", "9">>
IsDigit(ch) == \E i \in 1..10 : Digits[i] = ch
DigitVal(ch) == (CHOOSE i \in 1..10 : Digits[i] = ch) - 1
White == {" ", "\t", "\n", "\r"}

RECURSIVE TrimLeft(_)
TrimLeft(s) == IF s # <<>> /\ Head(s) \in White THEN TrimLeft(Tail(s)) ELSE s
RECURSIVE TrimRight(_)
TrimRight(s) ==
    IF s # <<>> /\ s[Len(s)] \in White THEN TrimRight(SubSeq(s, 1, Len(s) - 1)) ELSE s
\* A validation that compares the string as it was sent.
Untrimmed(s) == s
\* strings.TrimSpace
TrimSpace(s) == TrimRight(TrimLeft(s))

\* ----------------------------------------------------------------- integers

\* A Go int (64 bits) is kept as sign and magnitude, the magnitude as
\* hi * 2^16 + lo, so that every intermediate value fits the checker's integers.
Limb == 256 * 256
IntOf(neg, hi, lo) == [err |-> FALSE, neg |-> neg, hi |-> hi, lo |-> lo]
AtoiError == [err |-> TRUE, neg |-> FALSE, hi |-> 0, lo |-> 0]

RECURSIVE AtoiDigits(_, _, _)
AtoiDigits(s, hi, lo) ==
    IF s = <<>> THEN IntOf(FALSE, hi, lo)
    ELSE IF ~IsDigit(Head(s)) THEN AtoiError
    ELSE LET t == lo * 10 + DigitVal(Head(s))
         IN AtoiDigits(Tail(s), hi * 10 + (t \div Limb), t % Limb)

\* strconv.Atoi on a string short enough not to leave the int range.
Atoi(s) ==
    IF s = <<>> THEN AtoiError
    ELSE IF Head(s) \in {"-", "+"}
         THEN IF Tail(s) = <<>> THEN AtoiError
              ELSE LET m == AtoiDigits(Tail(s), 0, 0)
                   IN IF m.err THEN AtoiError
                      ELSE IntOf(Head(s) = "-" /\ (m.hi # 0 \/ m.lo # 0), m.hi, m.lo)
         ELSE AtoiDigits(s, 0, 0)

\* The int v equals the small integer n.
IntEquals(v, n) ==
    /\ ~v.err
    /\ IF n < 0 THEN v.neg /\ v.hi = (0 - n) \div Limb /\ v.lo = (0 - n) % Limb
       ELSE ~v.neg /\ v.hi = n \div Limb /\ v.lo = n % Limb

\* The conversion int32(v): the low 32 bits of v in two's complement.
Int32Truncated(v) ==
    LET h0 == v.hi % Limb
        l0 == v.lo
        l == IF v.neg THEN (Limb - l0) % Limb ELSE l0
        h == IF v.neg THEN (Limb - 1 - h0 + (IF l0 = 0 THEN 1 ELSE 0)) % Limb ELSE h0
    IN IF h >= Limb \div 2 THEN (h - Limb) * Limb + l ELSE h * Limb + l
Int32(v) == Int32Truncated(v)

\* ------------------------------------------------------------------- prices

RECURSIVE DecVal(_, _)
DecVal(s, acc) == IF s = <<>> THEN acc ELSE DecVal(Tail(s), acc * 10 + DigitVal(Head(s)))
RECURSIVE StripZeros(_)
StripZeros(s) == IF s # <<>> /\ Head(s) = "0" THEN StripZeros(Tail(s)) ELSE s
AllDigits(s) == \A i \in 1..Len(s) : IsDigit(s[i])
Unsigned(s) == IF s # <<>> /\ Head(s) \in {"-", "+"} THEN Tail(s) ELSE s
PointAt(s) == IF \E i \in 1..Len(s) : s[i] = "."
              THEN CHOOSE i \in 1..Len(s) : s[i] = "." /\ \A j \in 1..(i - 1) : s[j] # "."
              ELSE Len(s) + 1
IntDigits(s) == SubSeq(Unsigned(s), 1, PointAt(Unsigned(s)) - 1)
FracDigits(s) == SubSeq(Unsigned(s), PointAt(Unsigned(s)) + 1, Len(Unsigned(s)))

\* strconv.ParseFloat(s, 64) returns no error.  Decided for decimal literals
\* (sign, digits, point, digits) and for text with no digit in it; the
\* requests of this model carry no exponent, hexadecimal, "inf" or "nan".
ParseFloatOk(s) ==
    /\ AllDigits(IntDigits(s))
    /\ AllDigits(FracDigits(s))
    /\ Len(IntDigits(s)) + Len(FracDigits(s)) >= 1

RECURSIVE Pow10(_)
Pow10(n) == IF n = 0 THEN 1 ELSE 10 * Pow10(n - 1)

\* The text s stored into a NUMERIC(10, 2) column: rounded to two places,
\* half away from zero; overflow when the rounded value needs more than
\* eight digits before the point.  u is the whole part, f the hundredths.
NumericOf(s) ==
    LET i == StripZeros(IntDigits(s))
        fr == FracDigits(s) \o <<"0", "0", "0">>
        whole == IF Len(i) > NumericPrecision - NumericScale THEN Pow10(NumericPrecision - NumericScale)
                 ELSE DecVal(i, 0)
        cents == DecVal(SubSeq(fr, 1, NumericScale), 0)
                 + (IF DigitVal(fr[NumericScale + 1]) >= 5 THEN 1 ELSE 0)
        u == whole + cents \div 100
        f == cents % 100
    IN [overflow |-> u >= Pow10(NumericPrecision - NumericScale),
        neg |-> Head(s) = "-" /\ (u # 0 \/ f # 0),
        u |-> u, f |-> f]

RECURSIVE Itoa(_)
Itoa(n) == IF n < 10 THEN <<Digits[n + 1]>> ELSE Itoa(n \div 10) \o <<Digits[(n % 10) + 1]>>
\* The text PostgreSQL returns for a NUMERIC(10, 2) value.
NumericText(n) ==
    (IF n.neg THEN <<"-">> ELSE <<>>)
    \o Itoa(n.u) \o <<".">> \o <<Digits[(n.f \div 10) + 1], Digits[(n.f % 10) + 1]>>

\* ------------------------------------------------------------------- routes

SegApi == <<"a", "p", "i">>
SegV1 == <<"v", "1">>
SegProducts == <<"p", "r", "o", "d", "u", "c", "t", "s">>
SegCustomers == <<"c", "u", "s", "t", "o", "m", "e", "r", "s">>
SegInvoices == <<"i", "n", "v", "o", "i", "c", "e", "s">>
SegHealth == <<"h", "e", "a", "l", "t", "h">>

\* A request path is the sequence of the parts strings.Split(path, "/")
\* yields after the leading empty one: "/api/v1/products/7" is
\* <<SegApi, SegV1, SegProducts, <<"7">>>>.
ApiPrefix == <<SegApi, SegV1>>
ProductsApiPrefix == ApiPrefix \o <<SegProducts>>
CustomersApiPrefix == ApiPrefix \o <<SegCustomers>>
InvoicesApiPrefix == ApiPrefix \o <<SegInvoices>>

\* http.HandleFunc(prefix, h) serves the path prefix itself.
ExactRoute(prefix, path) == path = prefix
\* http.HandleFunc(prefix + "/", h) serves every path below prefix.
SubtreeRoute(prefix, path) ==
    Len(path) > Len(prefix) /\ SubSeq(path, 1, Len(prefix)) = prefix

\* The extraction with a segment that is no number read as 0.
ExtractTrailingIDOrZero(path) ==
    IF Atoi(path[Len(path)]).err THEN IntOf(FALSE, 0, 0) ELSE Atoi(path[Len(path)])
\* utils.ExtractTrailingID
ExtractTrailingID(path) == Atoi(path[Len(path)])

\* ---------------------------------------------------------------- the store

Clients == {"c1", "c2"}

VARIABLES
    customer,      \* rows of table customer: [id, first_name, last_name]
    product,       \* rows of table product: [id, name, description, price, available_items]
    invoice,       \* rows of table invoice: [id, invoice_number, invoice_date, customer_id]
    invoice_item,  \* rows of table invoice_item: [id, invoice_id, product_id, count]
    seq,           \* the last value each table's SERIAL sequence issued
    req            \* per client: the request being served, or the last one answered

vars == <<customer, product, invoice, invoice_item, seq, req>>
tables == <<customer, product, invoice, invoice_item>>
store == <<customer, product, invoice, invoice_item, seq>>

NoBody == [json |-> FALSE]
NoRequest == [path |-> <<>>, method |-> "", body |-> NoBody]

\* req[c].pc: "idle" before the first request, "run" while a writing
\* statement is between its snapshot and its commit, "done" once answered,
\* "off" for a client that sends nothing.
\* q is the query the handler invoked ("none" when it invoked none), a and b
\* its int32 parameters, t its timestamp parameter, snap the id of the
\* statement's target row as its snapshot shows it (0: no such row), wrote
\* what the statement did to a row ("insert", "update", "delete" or "none"),
\* status and out the response.
\* obs marks the clients whose last response is kept for the properties; a
\* response to another client is delivered and forgotten.
Idle == [pc |-> "idle", obs |-> FALSE, r |-> NoRequest, q |-> "none", a |-> 0, b |-> 0,
         t |-> 0, snap |-> 0, status |-> 0, wrote |-> "none", out |-> <<>>]
Watched == [Idle EXCEPT !.obs = TRUE]
Off == [Idle EXCEPT !.pc = "off"]

\* The schema just created: empty tables, sequences that issued nothing.
EmptyStore ==
    /\ customer = {}
    /\ product = {}
    /\ invoice = {}
    /\ invoice_item = {}
    /\ seq = [customer |-> 0, product |-> 0, invoice |-> 0, invoice_item |-> 0]

Init ==
    /\ EmptyStore
    /\ req = [c \in Clients |-> Idle]

Free(c) == req[c].pc \in {"idle", "done"}
Running(c, q) == req[c].pc = "run" /\ req[c].q = q
InFlight(q) == Cardinality({c \in Clients : Running(c, q)})

Ids(rows) == {row.id : row \in rows}
RowOf(rows, id) == CHOOSE row \in rows : row.id = id
\* The id if the table holds a row with it, else 0.
Visible(rows, id) == IF id \in Ids(rows) THEN id ELSE 0

RECURSIVE SortById(_)
SortById(rows) ==
    IF rows = {} THEN <<>>
    ELSE LET middle == CHOOSE row \in rows :
                           Cardinality({other \in rows : other.id < row.id})
                               = Cardinality(rows) \div 2
         IN SortById({row \in rows : row.id < middle.id})
            \o <<middle>>
            \o SortById({row \in rows : row.id > middle.id})
\* The list without its LIMIT.
Unlimited(rowSeq) == rowSeq
\* ORDER BY id LIMIT 100
Limit(rowSeq) == SubSeq(rowSeq, 1, IF Len(rowSeq) < ListLimit THEN Len(rowSeq) ELSE ListLimit)

Response(c, record) ==
    req' = [req EXCEPT ![c] = IF req[c].obs THEN record ELSE Idle]

\* The handler answers without (further) use of the store.
Answer(c, r, q, a, b, status, out) ==
    Response(c, [pc |-> "done", obs |-> TRUE, r |-> r, q |-> q, a |-> a, b |-> b, t |-> 0,
                 snap |-> 0, status |-> status, wrote |-> "none", out |-> out])
Reject(c, r, status) == Answer(c, r, "none", 0, 0, status, <<>>)
\* The handler sends a writing statement; snap is what its snapshot shows.
Send(c, r, q, a, b, t, snap) ==
    req' = [req EXCEPT ![c] = [pc |-> "run", obs |-> req[c].obs, r |-> r, q |-> q, a |-> a, b |-> b, t |-> t,
                               snap |-> snap, status |-> 0, wrote |-> "none", out |-> <<>>]]
\* The statement ends and the handler answers.
Finish(c, status, wrote, out) ==
    Response(c, [req[c] EXCEPT !.pc = "done", !.status = status, !.wrote = wrote,
                               !.out = out])

\* -------------------------------------------------- constraints of the schema

VarcharName == 50
VarcharProductName == 100
VarcharNumber == 50
\* Text assigned to a VARCHAR(n) column: longer text is an error (22001)
\* unless everything past n characters is a space, which is cut off.
VarcharFits(s, n) == \A i \in (n + 1)..Len(s) : s[i] = " "
VarcharValue(s, n) == IF Len(s) > n THEN SubSeq(s, 1, n) ELSE s
\* No invoice ever counts as a reference to a customer.
CustomerUnreferenced(id) == FALSE
\* invoice.customer_id REFERENCES customer(id)
CustomerReferenced(id) == \E i \in invoice : i.customer_id = id
\* invoice_item.invoice_id REFERENCES invoice(id)
InvoiceReferenced(id) == \E it \in invoice_item : it.invoice_id = id
\* No invoice item ever counts as a reference to a product.
ProductUnreferenced(id) == FALSE
\* invoice_item.product_id REFERENCES product(id)
ProductReferenced(id) == \E it \in invoice_item : it.product_id = id
\* No invoice number ever counts as taken.
NumberFree(number, self) == FALSE
\* invoice.invoice_number UNIQUE: another row than self holds the number.
NumberTaken(number, self) ==
    \E i \in invoice : i.id # self /\ i.invoice_number = number
\* No invoice item ever counts as a row of the pair.
PairRowsNone(invoiceId, productId) == {}
\* invoice_item UNIQUE (invoice_id, product_id): the rows of the pair.
PairRows(invoiceId, productId) ==
    {it \in invoice_item : it.invoice_id = invoiceId /\ it.product_id = productId}
PairVisible(invoiceId, productId) ==
    IF PairRows(invoiceId, productId) = {} THEN 0
    ELSE (CHOOSE it \in PairRows(invoiceId, productId) : TRUE).id
\* CHECK (price >= 0), CHECK (available_items >= 0), CHECK (count > 0)
PriceCheck(n) == ~n.neg
AvailableItemsCheck(n) == n >= 0
CountCheck(n) == n > 0

\* The result column of the check-then-write statements (DeleteProduct,
\* DeleteInvoice, DeleteCustomer, DeleteProductFromInvoice, UpdateInvoice):
\* check_* reads the snapshot, the writing CTE returns the rows it wrote.
CheckThenWrite(snap, wrote, notFound, failed) ==
    IF snap = 0 THEN notFound ELSE IF ~wrote THEN failed ELSE "success"

\* ---------------------------------------------------------------- customers

CustomerResponse(row) == row

CustomersHandler(c, r) ==
    /\ Free(c)
    /\ ExactRoute(CustomersApiPrefix, r.path)
    /\ UNCHANGED store
    /\ IF r.method = "GET"
       THEN Answer(c, r, "ListCustomers", 0, 0, StatusOK,
                   [i \in DOMAIN Limit(SortById(customer)) |->
                       CustomerResponse(Limit(SortById(customer))[i])])
       ELSE IF r.method = "POST"
       THEN IF ~r.body.json THEN Reject(c, r, StatusBadRequest)
            ELSE IF TrimSpace(r.body.first_name) = <<>> THEN Reject(c, r, StatusBadRequest)
            ELSE IF TrimSpace(r.body.last_name) = <<>> THEN Reject(c, r, StatusBadRequest)
            ELSE /\ seq.customer + InFlight("CreateCustomer") < MaxCustomers
                 /\ Send(c, r, "CreateCustomer", 0, 0, 0, 0)
       ELSE Reject(c, r, StatusMethodNotAllowed)

CreateCustomer(c) ==
    /\ Running(c, "CreateCustomer")
    /\ LET b == req[c].r.body
           id == seq.customer + 1
           row == [id |-> id, first_name |-> VarcharValue(b.first_name, VarcharName),
                   last_name |-> VarcharValue(b.last_name, VarcharName)]
       IN /\ seq' = [seq EXCEPT !.customer = id]
          /\ IF VarcharFits(b.first_name, VarcharName) /\ VarcharFits(b.last_name, VarcharName)
             THEN /\ customer' = customer \cup {row}
                  /\ Finish(c, StatusCreated, "insert", <<CustomerResponse(row)>>)
             ELSE /\ customer' = customer
                  /\ Finish(c, StatusInternalServerError, "none", <<>>)
    /\ UNCHANGED <<product, invoice, invoice_item>>

UpdateCustomer(c) ==
    /\ Running(c, "UpdateCustomer")
    /\ LET b == req[c].r.body
           id == req[c].a
           target == req[c].snap # 0 /\ id \in Ids(customer)
           row == [id |-> id, first_name |-> VarcharValue(b.first_name, VarcharName),
                   last_name |-> VarcharValue(b.last_name, VarcharName)]
       IN IF ~(VarcharFits(b.first_name, VarcharName) /\ VarcharFits(b.last_name, VarcharName))
          THEN /\ customer' = customer
               /\ Finish(c, StatusInternalServerError, "none", <<>>)
          ELSE IF target
          THEN /\ customer' = (customer \ {RowOf(customer, id)}) \cup {row}
               /\ Finish(c, StatusOK, "update", <<CustomerResponse(row)>>)
          ELSE /\ customer' = customer
               /\ Finish(c, StatusNotFound, "none", <<>>)
    /\ UNCHANGED <<product, invoice, invoice_item, seq>>

\* CustomerHandler, DELETE: the status for the statement's result column.
DeleteCustomerStatus(result) ==
    IF result = "customer_not_found" THEN StatusNotFound ELSE StatusNoContent

DeleteCustomer(c) ==
    /\ Running(c, "DeleteCustomer")
    /\ LET id == req[c].a
           target == req[c].snap # 0 /\ id \in Ids(customer)
       IN IF target /\ CustomerReferenced(id)
          THEN \* 23503, invoice_customer_id_fkey
               /\ customer' = customer
               /\ Finish(c, StatusConflict, "none", <<>>)
          ELSE /\ customer' = IF target THEN customer \ {RowOf(customer, id)} ELSE customer
               /\ Finish(c, DeleteCustomerStatus(CheckThenWrite(req[c].snap, target,
                                 "customer_not_found", "delete_failed")),
                         IF target THEN "delete" ELSE "none", <<>>)
    /\ UNCHANGED <<product, invoice, invoice_item, seq>>

\* A handler of /customers/{id} whose GET deletes the row.
CustomerHandlerGetDeletes(c, r) ==
    /\ Free(c)
    /\ SubtreeRoute(CustomersApiPrefix, r.path)
    /\ UNCHANGED store
    /\ LET id == ExtractTrailingID(r.path)
       IN IF id.err THEN Reject(c, r, StatusBadRequest)
          ELSE IF r.method \in {"GET", "DELETE"}
          THEN Send(c, r, "DeleteCustomer", Int32(id), 0, 0, Visible(customer, Int32(id)))
          ELSE IF r.method = "PATCH"
          THEN IF ~r.body.json THEN Reject(c, r, StatusBadRequest)
               ELSE IF TrimSpace(r.body.first_name) = <<>> THEN Reject(c, r, StatusBadRequest)
               ELSE IF TrimSpace(r.body.last_name) = <<>> THEN Reject(c, r, StatusBadRequest)
               ELSE Send(c, r, "UpdateCustomer", Int32(id), 0, 0,
                         Visible(customer, Int32(id)))
          ELSE Reject(c, r, StatusMethodNotAllowed)

CustomerHandler(c, r) ==
    /\ Free(c)
    /\ SubtreeRoute(CustomersApiPrefix, r.path)
    /\ UNCHANGED store
    /\ LET id == ExtractTrailingID(r.path)
       IN IF id.err THEN Reject(c, r, StatusBadRequest)
          ELSE IF r.method = "GET"
          THEN IF Int32(id) \in Ids(customer)
               THEN Answer(c, r, "GetCustomer", Int32(id), 0, StatusOK,
                           <<CustomerResponse(RowOf(customer, Int32(id)))>>)
               ELSE Answer(c, r, "GetCustomer", Int32(id), 0, StatusNotFound, <<>>)
          ELSE IF r.method = "PATCH"
          THEN IF ~r.body.json THEN Reject(c, r, StatusBadRequest)
               ELSE IF TrimSpace(r.body.first_name) = <<>> THEN Reject(c, r, StatusBadRequest)
               ELSE IF TrimSpace(r.body.last_name) = <<>> THEN Reject(c, r, StatusBadRequest)
               ELSE Send(c, r, "UpdateCustomer", Int32(id), 0, 0,
                         Visible(customer, Int32(id)))
          ELSE IF r.method = "DELETE"
          THEN Send(c, r, "DeleteCustomer", Int32(id), 0, 0, Visible(customer, Int32(id)))
          ELSE Reject(c, r, StatusMethodNotAllowed)

\* ----------------------------------------------------------------- products

\* productResponse: the price is the column's text, description is
\* Description.String ("" for NULL, which is how "" is stored).
ProductResponse(row) ==
    [id |-> row.id, name |-> row.name, description |-> row.description,
     price |-> NumericText(row.price), available_items |-> row.available_items]

\* The validation without its rule for available_items.
ProductBodyValidButItems(b) ==
    /\ TrimSpace(b.name) # <<>>
    /\ TrimSpace(b.price) # <<>>
    /\ ParseFloatOk(b.price)
\* The field checks ProductsHandler (POST) and ProductHandler (PATCH) make
\* before they call the store.
ProductBodyValid(b) ==
    /\ TrimSpace(b.name) # <<>>
    /\ TrimSpace(b.price) # <<>>
    /\ ParseFloatOk(b.price)
    /\ b.available_items >= 0

ProductRow(id, b) ==
    [id |-> id, name |-> VarcharValue(b.name, VarcharProductName),
     description |-> b.description,
     price |-> [neg |-> NumericOf(b.price).neg, u |-> NumericOf(b.price).u,
                f |-> NumericOf(b.price).f],
     available_items |-> b.available_items]

\* ProductsHandler (POST): the status for a constraint the store names.
CreateProductErrorStatus(constraint) ==
    IF constraint = "product_available_items_check" THEN StatusBadRequest
    ELSE IF constraint = "product_price_check" THEN StatusBadRequest
    ELSE StatusInternalServerError
\* ProductHandler (PATCH): the status for a constraint the store names.
UpdateProductErrorStatus(constraint) ==
    IF constraint = "product_available_items_check" THEN StatusBadRequest
    ELSE StatusInternalServerError

\* The error a product row draws from the store: "" for none, the
\* constraint's name for a CHECK violation, "22001" and "22003" for text too
\* long and numeric field overflow (errors that name no constraint).
ProductRowError(b) ==
    IF NumericOf(b.price).overflow THEN "22003"
    ELSE IF ~VarcharFits(b.name, VarcharProductName) THEN "22001"
    ELSE IF ~AvailableItemsCheck(b.available_items) THEN "product_available_items_check"
    ELSE IF ~PriceCheck(NumericOf(b.price)) THEN "product_price_check"
    ELSE ""

ProductsHandler(c, r) ==
    /\ Free(c)
    /\ ExactRoute(ProductsApiPrefix, r.path)
    /\ UNCHANGED store
    /\ IF r.method = "GET"
       THEN Answer(c, r, "ListProducts", 0, 0, StatusOK,
                   [i \in DOMAIN Limit(SortById(product)) |->
                       ProductResponse(Limit(SortById(product))[i])])
       ELSE IF r.method = "POST"
       THEN IF ~r.body.json THEN Reject(c, r, StatusBadRequest)
            ELSE IF ~ProductBodyValid(r.body) THEN Reject(c, r, StatusBadRequest)
            ELSE /\ seq.product + InFlight("CreateProduct") < MaxProducts
                 /\ Send(c, r, "CreateProduct", 0, 0, 0, 0)
       ELSE Reject(c, r, StatusMethodNotAllowed)

CreateProduct(c) ==
    /\ Running(c, "CreateProduct")
    /\ LET b == req[c].r.body
           id == seq.product + 1
           error == ProductRowError(b)
       IN /\ seq' = [seq EXCEPT !.product = id]
          /\ IF error = ""
             THEN /\ product' = product \cup {ProductRow(id, b)}
                  /\ Finish(c, StatusCreated, "insert", <<ProductResponse(ProductRow(id, b))>>)
             ELSE /\ product' = product
                  /\ Finish(c, CreateProductErrorStatus(error), "none", <<>>)
    /\ UNCHANGED <<customer, invoice, invoice_item>>

UpdateProduct(c) ==
    /\ Running(c, "UpdateProduct")
    /\ LET b == req[c].r.body
           id == req[c].a
           target == req[c].snap # 0 /\ id \in Ids(product)
           error == ProductRowError(b)
       IN IF error \in {"22003", "22001"}
          THEN \* raised when the parameters are coerced, row or no row
               /\ product' = product
               /\ Finish(c, UpdateProductErrorStatus(error), "none", <<>>)
          ELSE IF ~target
          THEN \* sql.ErrNoRows
               /\ product' = product
               /\ Finish(c, StatusNotFound, "none", <<>>)
          ELSE IF error # ""
          THEN /\ product' = product
               /\ Finish(c, UpdateProductErrorStatus(error), "none", <<>>)
          ELSE /\ product' = (product \ {RowOf(product, id)}) \cup {ProductRow(id, b)}
               /\ Finish(c, StatusOK, "update", <<ProductResponse(ProductRow(id, b))>>)
    /\ UNCHANGED <<customer, invoice, invoice_item, seq>>

\* ProductHandler, DELETE: the status for the statement's result column.
DeleteProductStatus(result) ==
    IF result = "product_not_found" THEN StatusNotFound ELSE StatusNoContent

DeleteProduct(c) ==
    /\ Running(c, "DeleteProduct")
    /\ LET id == req[c].a
           target == req[c].snap # 0 /\ id \in Ids(product)
       IN IF target /\ ProductReferenced(id)
          THEN \* 23503, invoice_item_product_id_fkey
               /\ product' = product
               /\ Finish(c, StatusConflict, "none", <<>>)
          ELSE /\ product' = IF target THEN product \ {RowOf(product, id)} ELSE product
               /\ Finish(c, DeleteProductStatus(CheckThenWrite(req[c].snap, target,
                                 "product_not_found", "delete_failed")),
                         IF target THEN "delete" ELSE "none", <<>>)
    /\ UNCHANGED <<customer, invoice, invoice_item, seq>>

ProductHandler(c, r) ==
    /\ Free(c)
    /\ SubtreeRoute(ProductsApiPrefix, r.path)
    /\ UNCHANGED store
    /\ LET id == ExtractTrailingID(r.path)
       IN IF id.err THEN Reject(c, r, StatusBadRequest)
          ELSE IF r.method = "GET"
          THEN IF Int32(id) \in Ids(product)
               THEN Answer(c, r, "GetProduct", Int32(id), 0, StatusOK,
                           <<ProductResponse(RowOf(product, Int32(id)))>>)
               ELSE Answer(c, r, "GetProduct", Int32(id), 0, StatusNotFound, <<>>)
          ELSE IF r.method = "PATCH"
          THEN IF ~r.body.json THEN Reject(c, r, StatusBadRequest)
               ELSE IF ~ProductBodyValid(r.body) THEN Reject(c, r, StatusBadRequest)
               ELSE Send(c, r, "UpdateProduct", Int32(id), 0, 0, Visible(product, Int32(id)))
          ELSE IF r.method = "DELETE"
          THEN Send(c, r, "DeleteProduct", Int32(id), 0, 0, Visible(product, Int32(id)))
          ELSE Reject(c, r, StatusMethodNotAllowed)

\* ----------------------------------------------------------------- invoices

\* The values time.Now() takes, in hours of UTC.  0 is the zero time.Time,
\* which is also what an omitted invoice_date decodes to.
Clock == {9}
\* The timestamp the store keeps for a time.Time parameter, which is a wall
\* clock and the offset of its zone from UTC: lib/pq writes both, the cast
\* ::timestamp keeps the wall clock and drops the offset, and the TIMESTAMPTZ
\* column takes the wall clock as one of the session's zone, UTC.
TimestampParam(date, zone) == date

InvoiceResponse(row) == row

\* InvoicesHandler (POST) and InvoiceHandler (PATCH): the status for the
\* SQLSTATE of a store error.
InvoiceErrorStatus(code) ==
    IF code = "23505" THEN StatusConflict
    ELSE IF code = "23503" THEN StatusBadRequest
    ELSE StatusInternalServerError

\* The SQLSTATE an invoice row draws from the store as row self, "" for
\* none: the unique index is checked when the row is written, the foreign
\* key after it.
InvoiceRowError(number, customerId, self) ==
    IF ~VarcharFits(number, VarcharNumber) THEN "22001"
    ELSE IF NumberTaken(VarcharValue(number, VarcharNumber), self) THEN "23505"
    ELSE IF customerId \notin Ids(customer) THEN "23503"
    ELSE ""

InvoicesHandler(c, r) ==
    /\ Free(c)
    /\ ExactRoute(InvoicesApiPrefix, r.path)
    /\ UNCHANGED store
    /\ IF r.method = "GET"
       THEN Answer(c, r, "ListInvoices", 0, 0, StatusOK,
                   [i \in DOMAIN Limit(SortById(invoice)) |->
                       InvoiceResponse(Limit(SortById(invoice))[i])])
       ELSE IF r.method = "POST"
       THEN IF ~r.body.json THEN Reject(c, r, StatusBadRequest)
            ELSE IF TrimSpace(r.body.invoice_number) = <<>> THEN Reject(c, r, StatusBadRequest)
            ELSE IF r.body.customer_id <= 0 THEN Reject(c, r, StatusBadRequest)
            ELSE /\ seq.invoice + InFlight("CreateInvoice") < MaxInvoices
                 /\ \E now \in Clock :
                        Send(c, r, "CreateInvoice", 0, 0,
                             IF r.body.invoice_date # 0
                             THEN TimestampParam(r.body.invoice_date, r.body.invoice_zone)
                             ELSE TimestampParam(now, 0),
                             IF NumberTaken(r.body.invoice_number, 0)
                             THEN (CHOOSE i \in invoice :
                                      i.invoice_number = r.body.invoice_number).id
                             ELSE 0)
       ELSE Reject(c, r, StatusMethodNotAllowed)

CreateInvoice(c) ==
    /\ Running(c, "CreateInvoice")
    /\ LET b == req[c].r.body
           id == seq.invoice + 1
           error == InvoiceRowError(b.invoice_number, b.customer_id, id)
           row == [id |-> id, invoice_number |-> VarcharValue(b.invoice_number, VarcharNumber),
                   invoice_date |-> req[c].t, customer_id |-> b.customer_id]
       IN /\ seq' = [seq EXCEPT !.invoice = id]
          /\ IF error = ""
             THEN /\ invoice' = invoice \cup {row}
                  /\ Finish(c, StatusCreated, "insert", <<InvoiceResponse(row)>>)
             ELSE /\ invoice' = invoice
                  /\ Finish(c, InvoiceErrorStatus(error), "none", <<>>)
    /\ UNCHANGED <<customer, product, invoice_item>>

\* InvoiceHandler, PATCH: the status for the statement's result column.
UpdateInvoiceStatus(result) ==
    IF result = "success" THEN StatusOK
    ELSE IF result = "invoice_not_found" THEN StatusNotFound
    ELSE StatusInternalServerError

UpdateInvoice(c) ==
    /\ Running(c, "UpdateInvoice")
    /\ LET b == req[c].r.body
           id == req[c].a
           target == req[c].snap # 0 /\ id \in Ids(invoice)
           error == IF ~VarcharFits(b.invoice_number, VarcharNumber) THEN "22001"
                    ELSE IF target THEN InvoiceRowError(b.invoice_number, b.customer_id, id)
                    ELSE ""
           row == [id |-> id, invoice_number |-> VarcharValue(b.invoice_number, VarcharNumber),
                   invoice_date |-> req[c].t, customer_id |-> b.customer_id]
           result == CheckThenWrite(req[c].snap, target, "invoice_not_found", "update_failed")
       IN IF error # ""
          THEN /\ invoice' = invoice
               /\ Finish(c, InvoiceErrorStatus(error), "none", <<>>)
          ELSE /\ invoice' = IF target THEN (invoice \ {RowOf(invoice, id)}) \cup {row}
                             ELSE invoice
               /\ Finish(c, UpdateInvoiceStatus(result), IF target THEN "update" ELSE "none",
                         IF target THEN <<InvoiceResponse(row)>> ELSE <<>>)
    /\ UNCHANGED <<customer, product, invoice_item, seq>>

\* InvoiceHandler, DELETE /invoices/{id}: the status for the result column.
DeleteInvoiceStatus(result) ==
    IF result = "invoice_not_found" THEN StatusNotFound ELSE StatusNoContent

DeleteInvoice(c) ==
    /\ Running(c, "DeleteInvoice")
    /\ LET id == req[c].a
           target == req[c].snap # 0 /\ id \in Ids(invoice)
       IN IF target /\ InvoiceReferenced(id)
          THEN \* 23503, invoice_item_invoice_id_fkey
               /\ invoice' = invoice
               /\ Finish(c, StatusConflict, "none", <<>>)
          ELSE /\ invoice' = IF target THEN invoice \ {RowOf(invoice, id)} ELSE invoice
               /\ Finish(c, DeleteInvoiceStatus(CheckThenWrite(req[c].snap, target,
                                 "invoice_not_found", "delete_failed")),
                         IF target THEN "delete" ELSE "none", <<>>)
    /\ UNCHANGED <<customer, product, invoice_item, seq>>

\* ------------------------------------------------------------ invoice items

InvoiceItemResponse(row) == row

\* CAST((p.price * ii.count) AS numeric(10,2))
SumOf(price, count) ==
    LET cents == price.f * count
        u == price.u * count + cents \div 100
    IN [overflow |-> u >= Pow10(NumericPrecision - NumericScale), neg |-> price.neg,
        u |-> u, f |-> cents % 100]

\* One row of ListProductsFromInvoice as invoiceProductResponse.
InvoiceProductResponse(p, it) ==
    [id |-> p.id, name |-> p.name, description |-> p.description,
     price |-> NumericText(p.price), count |-> it.count,
     sum |-> NumericText(SumOf(p.price, it.count))]

\* The rows ListProductsFromInvoice joins for an invoice id, keyed by product.
JoinedProducts(invoiceId) ==
    {p \in product : PairRows(invoiceId, p.id) # {}}
ItemOf(invoiceId, productId) == CHOOSE it \in PairRows(invoiceId, productId) : TRUE

\* ListProductsFromInvoice as the generated code returns it: the rows (none
\* for an invoice id without items, stored or not), or a store error.
ListProductsFromInvoice(invoiceId) ==
    LET ps == Limit(SortById(JoinedProducts(invoiceId)))
    IN [err |-> \E p \in JoinedProducts(invoiceId) :
                    SumOf(p.price, ItemOf(invoiceId, p.id).count).overflow,
        noRows |-> FALSE,
        rows |-> ps]

\* The list served whatever the method.
InvoiceProductsEndpointAnyMethod(c, r, invoiceId) ==
    LET items == ListProductsFromInvoice(invoiceId)
    IN IF items.noRows
       THEN Answer(c, r, "ListProductsFromInvoice", invoiceId, 0, StatusNotFound, <<>>)
       ELSE IF items.err
       THEN Answer(c, r, "ListProductsFromInvoice", invoiceId, 0,
                   StatusInternalServerError, <<>>)
       ELSE Answer(c, r, "ListProductsFromInvoice", invoiceId, 0, StatusOK,
                   [i \in DOMAIN items.rows |->
                       InvoiceProductResponse(items.rows[i],
                                              ItemOf(invoiceId, items.rows[i].id))])

\* GET /invoices/{invoice_id}/products
InvoiceProductsEndpoint(c, r, invoiceId) ==
    IF r.method = "GET"
    THEN LET items == ListProductsFromInvoice(invoiceId)
         IN IF items.noRows
            THEN Answer(c, r, "ListProductsFromInvoice", invoiceId, 0, StatusNotFound, <<>>)
            ELSE IF items.err
            THEN Answer(c, r, "ListProductsFromInvoice", invoiceId, 0,
                        StatusInternalServerError, <<>>)
            ELSE Answer(c, r, "ListProductsFromInvoice", invoiceId, 0, StatusOK,
                        [i \in DOMAIN items.rows |->
                            InvoiceProductResponse(items.rows[i],
                                                   ItemOf(invoiceId, items.rows[i].id))])
    ELSE Reject(c, r, StatusMethodNotAllowed)

\* POST and DELETE /invoices/{invoice_id}/products/{product_id}
InvoiceProductEndpoint(c, r, invoiceId, productSegment) ==
    LET productID == Atoi(productSegment)
    IN IF productID.err THEN Reject(c, r, StatusBadRequest)
       ELSE IF r.method = "DELETE"
       THEN Send(c, r, "DeleteProductFromInvoice", invoiceId, Int32(productID), 0,
                 PairVisible(invoiceId, Int32(productID)))
       ELSE IF r.method = "POST"
       THEN IF ~r.body.json THEN Reject(c, r, StatusBadRequest)
            ELSE IF r.body.count <= 0 THEN Reject(c, r, StatusBadRequest)
            ELSE /\ seq.invoice_item + InFlight("AddProductToInvoice") < MaxItems
                 /\ Send(c, r, "AddProductToInvoice", invoiceId, Int32(productID), 0,
                         PairVisible(invoiceId, Int32(productID)))
       ELSE Reject(c, r, StatusMethodNotAllowed)

\* GET, PATCH and DELETE /invoices/{invoice_id}
InvoiceEndpoint(c, r, invoiceId) ==
    IF r.method = "GET"
    THEN IF invoiceId \in Ids(invoice)
         THEN Answer(c, r, "GetInvoice", invoiceId, 0, StatusOK,
                     <<InvoiceResponse(RowOf(invoice, invoiceId))>>)
         ELSE Answer(c, r, "GetInvoice", invoiceId, 0, StatusNotFound, <<>>)
    ELSE IF r.method = "PATCH"
    THEN IF ~r.body.json THEN Reject(c, r, StatusBadRequest)
         ELSE IF TrimSpace(r.body.invoice_number) = <<>> THEN Reject(c, r, StatusBadRequest)
         ELSE IF r.body.invoice_date = 0 THEN Reject(c, r, StatusBadRequest)
         ELSE IF r.body.customer_id <= 0 THEN Reject(c, r, StatusBadRequest)
         ELSE Send(c, r, "UpdateInvoice", invoiceId, 0,
                   TimestampParam(r.body.invoice_date, r.body.invoice_zone),
                   Visible(invoice, invoiceId))
    ELSE IF r.method = "DELETE"
    THEN Send(c, r, "DeleteInvoice", invoiceId, 0, 0, Visible(invoice, invoiceId))
    ELSE Reject(c, r, StatusMethodNotAllowed)

NonEmpty(seg) == seg # <<>>

InvoiceHandler(c, r) ==
    /\ Free(c)
    /\ SubtreeRoute(InvoicesApiPrefix, r.path)
    /\ UNCHANGED store
    /\ LET segments == SelectSeq(r.path, NonEmpty)
           invoiceIdx == CHOOSE i \in 1..Len(segments) :
                             /\ segments[i] = SegInvoices
                             /\ \A j \in 1..(i - 1) : segments[j] # SegInvoices
       IN IF Len(segments) <= invoiceIdx THEN Reject(c, r, StatusBadRequest)
          ELSE LET invoiceID == Atoi(segments[invoiceIdx + 1])
               IN IF invoiceID.err THEN Reject(c, r, StatusBadRequest)
                  ELSE IF Len(segments) > invoiceIdx + 1
                          /\ segments[invoiceIdx + 2] = SegProducts
                  THEN IF Len(segments) = invoiceIdx + 2
                       THEN InvoiceProductsEndpoint(c, r, Int32(invoiceID))
                       ELSE IF Len(segments) = invoiceIdx + 3
                       THEN InvoiceProductEndpoint(c, r, Int32(invoiceID),
                                                   segments[invoiceIdx + 3])
                       ELSE Reject(c, r, StatusNotFound)
                  ELSE InvoiceEndpoint(c, r, Int32(invoiceID))

\* AddProductToInvoice: the constraint a new row violates, "" for none.  The
\* two foreign keys are checked by triggers the store orders by name; when
\* both fail, which one is reported depends on the names the store gave them.
AddProductErrors(invoiceId, productId) ==
    (IF invoiceId \in Ids(invoice) THEN {} ELSE {"invoice_item_invoice_id_fkey"})
    \cup (IF productId \in Ids(product) THEN {} ELSE {"invoice_item_product_id_fkey"})

\* InvoiceHandler, POST: status and message for the constraint of a 23503.
AddProductErrorStatus(constraint) ==
    IF constraint = "invoice_item_product_id_fkey" THEN StatusNotFound
    ELSE IF constraint = "invoice_item_invoice_id_fkey" THEN StatusNotFound
    ELSE StatusInternalServerError
AddProductErrorMessage(constraint) ==
    IF constraint = "invoice_item_product_id_fkey" THEN "The provided product does not exist"
    ELSE IF constraint = "invoice_item_invoice_id_fkey" THEN "The provided invoice does not exist"
    ELSE "Internal server error"
\* An upsert that adds the count to the stored one.
UpsertRowAdding(old, id, invoiceId, productId, count) ==
    IF old = {}
    THEN [id |-> id, invoice_id |-> invoiceId, product_id |-> productId, count |-> count]
    ELSE [(CHOOSE it \in old : TRUE) EXCEPT !.count = @ + count]
\* The row AddProductToInvoice returns: the inserted one, or on a conflict
\* with the rows old the stored one with SET count = EXCLUDED.count.
UpsertRow(old, id, invoiceId, productId, count) ==
    IF old = {}
    THEN [id |-> id, invoice_id |-> invoiceId, product_id |-> productId, count |-> count]
    ELSE [(CHOOSE it \in old : TRUE) EXCEPT !.count = count]

AddProductToInvoice(c) ==
    /\ Running(c, "AddProductToInvoice")
    /\ LET id == seq.invoice_item + 1
           old == PairRows(req[c].a, req[c].b)
           errors == AddProductErrors(req[c].a, req[c].b)
           row == UpsertRow(old, id, req[c].a, req[c].b, req[c].r.body.count)
       IN /\ seq' = [seq EXCEPT !.invoice_item = id]
          /\ IF old # {} \/ errors = {}
             THEN \* ON CONFLICT (invoice_id, product_id) DO UPDATE SET count
                  /\ invoice_item' = (invoice_item \ old) \cup {row}
                  /\ Finish(c, StatusCreated, IF old = {} THEN "insert" ELSE "update",
                            <<InvoiceItemResponse(row)>>)
             ELSE /\ invoice_item' = invoice_item
                  /\ \E constraint \in errors :
                         Finish(c, AddProductErrorStatus(constraint), "none",
                                <<[message |-> AddProductErrorMessage(constraint)]>>)
    /\ UNCHANGED <<customer, product, invoice>>

\* InvoiceHandler, DELETE /invoices/{id}/products/{id}: the status for the
\* statement's result column.
DeleteProductFromInvoiceStatus(result) ==
    IF result = "invoice_item_not_found" THEN StatusNotFound ELSE StatusNoContent

DeleteProductFromInvoice(c) ==
    /\ Running(c, "DeleteProductFromInvoice")
    /\ LET target == req[c].snap # 0 /\ req[c].snap \in Ids(invoice_item)
       IN /\ invoice_item' = IF target THEN invoice_item \ {RowOf(invoice_item, req[c].snap)}
                             ELSE invoice_item
          /\ Finish(c, DeleteProductFromInvoiceStatus(
                           CheckThenWrite(req[c].snap, target, "invoice_item_not_found",
                                          "delete_failed")),
                         IF target THEN "delete" ELSE "none", <<>>)
    /\ UNCHANGED <<customer, product, invoice, seq>>

\* No pattern of the mux matches (the health check has one of its own): the
\* mux's 404.
NotFoundHandler(c, r) ==
    /\ Free(c)
    /\ ~ExactRoute(ApiPrefix \o <<SegHealth>>, r.path)
    /\ \A prefix \in {ProductsApiPrefix, CustomersApiPrefix, InvoicesApiPrefix} :
           ~ExactRoute(prefix, r.path) /\ ~SubtreeRoute(prefix, r.path)
    /\ UNCHANGED store
    /\ Reject(c, r, StatusNotFound)

\* ----------------------------------------------------------------- requests

One == <<"1">>
Two == <<"2">>
\* 2^32 + 1, which int32() turns into 1
Wide == <<"4", "2", "9", "4", "9", "6", "7", "2", "9", "7">>

Request(method, path, body) == [path |-> path, method |-> method, body |-> body]
CustomerBody(first, last) == [json |-> TRUE, first_name |-> first, last_name |-> last]
ProductBody(name, price, items) ==
    [json |-> TRUE, name |-> name, description |-> <<>>, price |-> price,
     available_items |-> items]
\* invoice_date is the wall clock of the payload's timestamp and invoice_zone
\* the offset of its zone from UTC, both in hours; the date 0 is no date.
ZonedInvoiceBody(number, date, zone, customerId) ==
    [json |-> TRUE, customer_id |-> customerId, invoice_number |-> number,
     invoice_date |-> date, invoice_zone |-> zone]
InvoiceBody(number, date, customerId) == ZonedInvoiceBody(number, date, 0, customerId)
ItemBody(count) == [json |-> TRUE, count |-> count]

\* The requests of the concurrent specification: every write of the API,
\* addressed to the first row of each table.
WriteRequests ==
    { Request("POST", CustomersApiPrefix, CustomerBody(<<"J">>, <<"B">>)),
      Request("PATCH", CustomersApiPrefix \o <<One>>, CustomerBody(<<"J">>, <<"B">>)),
      Request("DELETE", CustomersApiPrefix \o <<One>>, NoBody),
      Request("POST", ProductsApiPrefix, ProductBody(<<"M">>, <<"2">>, 1)),
      Request("PATCH", ProductsApiPrefix \o <<One>>, ProductBody(<<"M">>, <<"2">>, 1)),
      Request("DELETE", ProductsApiPrefix \o <<One>>, NoBody),
      Request("POST", InvoicesApiPrefix, InvoiceBody(<<"A">>, 0, 1)),
      Request("POST", InvoicesApiPrefix, InvoiceBody(<<"A">>, 0, 0)),
      Request("PATCH", InvoicesApiPrefix \o <<One>>, InvoiceBody(<<"A">>, 9, 1)),
      Request("PATCH", InvoicesApiPrefix \o <<One>>, InvoiceBody(<<"A">>, 9, 2)),
      Request("DELETE", InvoicesApiPrefix \o <<One>>, NoBody),
      Request("POST", InvoicesApiPrefix \o <<One, SegProducts, One>>, ItemBody(1)),
      Request("POST", InvoicesApiPrefix \o <<One, SegProducts, One>>, ItemBody(2)),
      Request("DELETE", InvoicesApiPrefix \o <<One, SegProducts, One>>, NoBody) }


\* One client sends one of the requests, or one statement in flight commits.
Step(requests) ==
    \E c \in Clients :
        \/ \E r \in requests : CustomersHandler(c, r)
        \/ \E r \in requests : CustomerHandler(c, r)
        \/ \E r \in requests : ProductsHandler(c, r)
        \/ \E r \in requests : ProductHandler(c, r)
        \/ \E r \in requests : InvoicesHandler(c, r)
        \/ \E r \in requests : InvoiceHandler(c, r)
        \/ CreateCustomer(c)
        \/ UpdateCustomer(c)
        \/ DeleteCustomer(c)
        \/ CreateProduct(c)
        \/ UpdateProduct(c)
        \/ DeleteProduct(c)
        \/ CreateInvoice(c)
        \/ UpdateInvoice(c)
        \/ DeleteInvoice(c)
        \/ AddProductToInvoice(c)
        \/ DeleteProductFromInvoice(c)

Next == Step(WriteRequests)

\* Two clients whose requests overlap in every possible way.
Spec == Init /\ [][Next]_vars

\* --------------------------------------------------- one client, in sequence

\* What one client can ask for: the writes, the reads of single rows and of
\* an invoice's products, ids that are not stored, an id beyond 32 bits, an
\* upsert without a positive count and a path outside the API.
SeqRequests ==
    WriteRequests
    \cup { Request("GET", prefix \o <<id>>, NoBody) :
               prefix \in {CustomersApiPrefix, ProductsApiPrefix, InvoicesApiPrefix},
               id \in {One, Wide} }
    \cup { Request("DELETE", prefix \o <<Wide>>, NoBody) :
               prefix \in {CustomersApiPrefix, ProductsApiPrefix, InvoicesApiPrefix} }
    \cup { Request("GET", InvoicesApiPrefix \o <<id, SegProducts>>, NoBody) : id \in {One, Two} }
    \cup { Request("POST", InvoicesApiPrefix \o <<One, SegProducts, One>>, ItemBody(0)),
           Request("POST", InvoicesApiPrefix \o <<Wide, SegProducts, One>>, ItemBody(1)),
           Request("POST", InvoicesApiPrefix \o <<One, SegProducts, Wide>>, ItemBody(1)),
           Request("POST", InvoicesApiPrefix \o <<One, SegProducts, Two>>, ItemBody(1)),
           Request("POST", InvoicesApiPrefix \o <<Two, SegProducts, One>>, ItemBody(1)),
           Request("DELETE", InvoicesApiPrefix \o <<One, SegProducts, Wide>>, NoBody),
           Request("DELETE", InvoicesApiPrefix \o <<Two, SegProducts, One>>, NoBody),
           Request("GET", <<SegApi>>, NoBody) }

InitSeq ==
    /\ EmptyStore
    /\ req = [c \in Clients |-> IF c = "c1" THEN Watched ELSE Off]

NextSeq ==
    \/ Step(SeqRequests)
    \/ \E c \in Clients : \E r \in SeqRequests : NotFoundHandler(c, r)

\* One client whose every request is answered before its next one.
SpecSeq == InitSeq /\ [][NextSeq]_vars

\* ------------------------------------------- two clients, creates and deletes

InitRace ==
    /\ EmptyStore
    /\ req = [c \in Clients |-> IF c = "c1" THEN Watched ELSE Idle]

DeleteRequests ==
    { Request("POST", CustomersApiPrefix, CustomerBody(<<"J">>, <<"B">>)),
      Request("DELETE", CustomersApiPrefix \o <<One>>, NoBody),
      Request("POST", ProductsApiPrefix, ProductBody(<<"M">>, <<"2">>, 1)),
      Request("DELETE", ProductsApiPrefix \o <<One>>, NoBody),
      Request("POST", InvoicesApiPrefix, InvoiceBody(<<"A">>, 0, 1)),
      Request("POST", InvoicesApiPrefix, InvoiceBody(<<"A">>, 0, 0)),
      Request("DELETE", InvoicesApiPrefix \o <<One>>, NoBody),
      Request("POST", InvoicesApiPrefix \o <<One, SegProducts, One>>, ItemBody(1)) }

NextDelete ==
    \E c \in Clients :
        \/ \E r \in DeleteRequests : CustomersHandler(c, r)
        \/ \E r \in DeleteRequests : CustomerHandler(c, r)
        \/ \E r \in DeleteRequests : ProductsHandler(c, r)
        \/ \E r \in DeleteRequests : ProductHandler(c, r)
        \/ \E r \in DeleteRequests : InvoicesHandler(c, r)
        \/ \E r \in DeleteRequests : InvoiceHandler(c, r)
        \/ CreateCustomer(c)
        \/ DeleteCustomer(c)
        \/ CreateProduct(c)
        \/ DeleteProduct(c)
        \/ CreateInvoice(c)
        \/ DeleteInvoice(c)
        \/ AddProductToInvoice(c)

\* Two clients that create rows and delete them, the answers to the first
\* client kept.
SpecDelete == InitRace /\ [][NextDelete]_vars

\* ------------------------------------------------- two clients, invoice items

ItemRequests ==
    { Request("POST", CustomersApiPrefix, CustomerBody(<<"J">>, <<"B">>)),
      Request("POST", ProductsApiPrefix, ProductBody(<<"M">>, <<"2">>, 1)),
      Request("POST", InvoicesApiPrefix, InvoiceBody(<<"A">>, 0, 1)),
      Request("POST", InvoicesApiPrefix \o <<One, SegProducts, One>>, ItemBody(1)),
      Request("POST", InvoicesApiPrefix \o <<One, SegProducts, One>>, ItemBody(2)),
      Request("DELETE", InvoicesApiPrefix \o <<One, SegProducts, One>>, NoBody) }

NextItems ==
    \E c \in Clients :
        \/ \E r \in ItemRequests : CustomersHandler(c, r)
        \/ \E r \in ItemRequests : ProductsHandler(c, r)
        \/ \E r \in ItemRequests : InvoicesHandler(c, r)
        \/ \E r \in ItemRequests : InvoiceHandler(c, r)
        \/ CreateCustomer(c)
        \/ CreateProduct(c)
        \/ CreateInvoice(c)
        \/ AddProductToInvoice(c)
        \/ DeleteProductFromInvoice(c)

\* Two clients that fill one invoice and empty it, the answers to the first
\* client kept.
SpecItems == InitRace /\ [][NextItems]_vars

\* ----------------------------------------------- two clients, invoice numbers

InvoiceRequests ==
    { Request("POST", CustomersApiPrefix, CustomerBody(<<"J">>, <<"B">>)),
      Request("POST", InvoicesApiPrefix, InvoiceBody(<<"A">>, 0, 1)),
      Request("POST", InvoicesApiPrefix, InvoiceBody(<<"B">>, 0, 1)),
      Request("POST", InvoicesApiPrefix, InvoiceBody(<<"A">>, 0, 0)),
      Request("PATCH", InvoicesApiPrefix \o <<One>>, InvoiceBody(<<"B">>, 9, 1)),
      Request("PATCH", InvoicesApiPrefix \o <<Two>>, InvoiceBody(<<"A">>, 9, 1)),
      Request("DELETE", InvoicesApiPrefix \o <<One>>, NoBody) }

NextInvoices ==
    \E c \in Clients :
        \/ \E r \in InvoiceRequests : CustomersHandler(c, r)
        \/ \E r \in InvoiceRequests : InvoicesHandler(c, r)
        \/ \E r \in InvoiceRequests : InvoiceHandler(c, r)
        \/ CreateCustomer(c)
        \/ CreateInvoice(c)
        \/ UpdateInvoice(c)
        \/ DeleteInvoice(c)

\* Two clients that create, renumber and delete invoices, the answers to the
\* first client kept.
SpecInvoices == InitRace /\ [][NextInvoices]_vars

\* --------------------------------------------------------------- properties

Deletes == {"DeleteCustomer", "DeleteProduct", "DeleteInvoice"}
Gets == {"GetCustomer", "GetProduct", "GetInvoice"}
\* The table a query of one row addresses.
TableOf(q) ==
    IF q \in {"DeleteCustomer", "GetCustomer"} THEN customer
    ELSE IF q \in {"DeleteProduct", "GetProduct"} THEN product
    ELSE invoice
\* A dependent row references the row id of the table a delete addresses.
ReferencedIn(q, id) ==
    IF q = "DeleteCustomer" THEN \E i \in invoice : i.customer_id = id
    ELSE IF q = "DeleteProduct" THEN \E it \in invoice_item : it.product_id = id
    ELSE \E it \in invoice_item : it.invoice_id = id
\* The number a request's path carries at position k, as the client wrote it.
Named(r, k) == Atoi(r.path[k])
\* The rows hold one whose id is the number v.
Holds(rows, v) == \E row \in rows : IntEquals(v, row.id)
\* The statement q of client c ends in this step, and the client is answered.
Answered(c, q) == Running(c, q) /\ req'[c].pc = "done"
\* The statement q of client c ends in this step.
Committed(c, q) == Running(c, q) /\ req'[c].pc # "run"
\* Client c sends a request in this step.
Sent(c) == Free(c) /\ req'[c] # req[c]
\* POST /invoices/{invoice_id}/products/{product_id}
IsUpsert(r) ==
    /\ r.method = "POST"
    /\ Len(r.path) = 6
    /\ SubSeq(r.path, 1, 3) = InvoicesApiPrefix
    /\ r.path[5] = SegProducts
\* The invoice items of the pair the path of request r names.
NamedPair(r, items) ==
    {it \in items : IntEquals(Named(r, 4), it.invoice_id)
                    /\ IntEquals(Named(r, 6), it.product_id)}

\* C1: for customers, products and invoices alike, a DELETE whose path id is
\* the id of no stored row is answered 404 and leaves every table as it was;
\* a DELETE whose path id is that of a stored row which no dependent row
\* references is answered 204 and the row is gone; and the GET that follows
\* a delete answered 204, on the same path, is answered 404.
C1_DeleteContract ==
    [][\A c \in Clients :
          /\ \A q \in Deletes :
                 Answered(c, q) =>
                     LET id == Named(req[c].r, 4)
                     IN /\ ~Holds(TableOf(q), id) =>
                               req'[c].status = StatusNotFound /\ tables' = tables
                        /\ (\E row \in TableOf(q) :
                                IntEquals(id, row.id) /\ ~ReferencedIn(q, row.id)) =>
                               req'[c].status = StatusNoContent /\ ~Holds(TableOf(q)', id)
          /\ (Sent(c) /\ req[c].q \in Deletes /\ req[c].status = StatusNoContent
                /\ req'[c].q \in Gets /\ req'[c].r.path = req[c].r.path) =>
                 req'[c].status = StatusNotFound]_vars

\* C2: a DELETE of a customer, product or invoice that the request found
\* stored and that a dependent row references when the delete applies is
\* answered 409 and changes no row of any table.
C2_ReferencedDeleteRefused ==
    [][\A c \in Clients : \A q \in Deletes :
          (Committed(c, q) /\ req[c].snap # 0 /\ Holds(TableOf(q), Named(req[c].r, 4))
             /\ \E row \in TableOf(q) :
                    IntEquals(Named(req[c].r, 4), row.id) /\ ReferencedIn(q, row.id)) =>
              /\ tables' = tables
              /\ req[c].obs => req'[c].status = StatusConflict]_vars

\* A delete of a referenced row was answered 409; the row and a row that
\* references it are stored.
C2_Witness ==
    \E q \in Deletes :
        /\ req["c1"].pc = "done"
        /\ req["c1"].q = q
        /\ req["c1"].status = StatusConflict
        /\ req["c1"].a \in Ids(TableOf(q))
        /\ ReferencedIn(q, req["c1"].a)

\* C3: of the DELETE requests for one customer, product or invoice that run
\* concurrently only the one that removed the row is answered 204: a delete
\* answered 204 has itself removed the row.
C3_OneDeleteSucceeds ==
    \A c \in Clients :
        (req[c].pc = "done" /\ req[c].q \in Deletes /\ req[c].status = StatusNoContent) =>
            req[c].wrote = "delete"

\* C4: every stored invoice's customer_id is the id of a stored customer, and
\* every stored invoice item's invoice_id and product_id are the ids of a
\* stored invoice and of a stored product.
C4_ForeignKeys ==
    /\ \A i \in invoice : i.customer_id \in Ids(customer)
    /\ \A it \in invoice_item :
           it.invoice_id \in Ids(invoice) /\ it.product_id \in Ids(product)

\* An invoice item is stored while one client's delete of its product and
\* the other's delete of its invoice are both in flight, each having found
\* its row.
C4_Witness ==
    /\ invoice_item # {}
    /\ \E c \in Clients, d \in Clients :
           /\ Running(c, "DeleteProduct") /\ req[c].snap # 0
           /\ Running(d, "DeleteInvoice") /\ req[d].snap # 0
           /\ ProductReferenced(req[c].snap)
           /\ InvoiceReferenced(req[d].snap)

\* C5: an upsert for a stored invoice and a stored product is answered 201
\* and leaves exactly one item for the pair, with the count of the request;
\* when the pair had an item already, that item keeps its id, its count is
\* replaced and not added to, no other row changes, and an upsert with the
\* count the item has leaves the store as it was.
C5_UpsertReplaces ==
    [][\A c \in Clients :
          (Answered(c, "AddProductToInvoice")
             /\ Holds(invoice, Named(req[c].r, 4)) /\ Holds(product, Named(req[c].r, 6))) =>
              LET r == req[c].r
                  old == NamedPair(r, invoice_item)
                  new == NamedPair(r, invoice_item')
              IN /\ req'[c].status = StatusCreated
                 /\ Cardinality(new) = 1
                 /\ \A it \in new : it.count = r.body.count /\ req'[c].out = <<it>>
                 /\ old # {} =>
                        /\ {it.id : it \in new} = {it.id : it \in old}
                        /\ invoice_item' \ new = invoice_item \ old
                        /\ (\A it \in old : it.count = r.body.count) =>
                               invoice_item' = invoice_item
                 /\ UNCHANGED <<customer, product, invoice>>]_vars

\* The second upsert of a pair was answered 201 with the first one's id and
\* its own count.
C5_Witness ==
    /\ req["c1"].pc = "done"
    /\ req["c1"].q = "AddProductToInvoice"
    /\ req["c1"].wrote = "update"
    /\ req["c1"].status = StatusCreated
    /\ req["c1"].r.body.count = 2
    /\ invoice_item = {[id |-> 1, invoice_id |-> 1, product_id |-> 1, count |-> 2]}
    /\ seq.invoice_item = 2

UniquePairs ==
    \A it \in invoice_item : \A other \in invoice_item :
        (it.invoice_id = other.invoice_id /\ it.product_id = other.product_id) => it = other

\* C6: no two stored invoice items have the same invoice_id and product_id,
\* however upserts overlap, and every upsert for a stored invoice and a
\* stored product leaves the pair's one item with its own count and is not
\* answered with an error.
C6_OneItemPerPair ==
    /\ []UniquePairs
    /\ [][\A c \in Clients :
             (Committed(c, "AddProductToInvoice")
                /\ req[c].a \in Ids(invoice) /\ req[c].b \in Ids(product)) =>
                 /\ \E it \in invoice_item' :
                        /\ it.count = req[c].r.body.count
                        /\ \A other \in invoice_item' :
                               (other.invoice_id = req[c].a /\ other.product_id = req[c].b)
                                   <=> other = it
                 /\ req[c].obs => req'[c].status = StatusCreated]_vars

\* An upsert that found no item for its pair when it was received has
\* replaced the count of the item another upsert inserted meanwhile.
C6_Witness ==
    /\ req["c1"].pc = "done"
    /\ req["c1"].q = "AddProductToInvoice"
    /\ req["c1"].snap = 0
    /\ req["c1"].wrote = "update"
    /\ req["c1"].status = StatusCreated
    /\ \E it \in invoice_item : req["c1"].out = <<it>>

\* C7: an upsert with a count of 0 or less is answered 400 without a
\* statement sent to the store; an upsert with a positive count whose path
\* names a product or an invoice that is not stored is answered 404 with a
\* message naming a missing one; in these cases no invoice item is created
\* or changed.
C7_UpsertRejections ==
    [][\A c \in Clients :
          /\ (Sent(c) /\ IsUpsert(req'[c].r) /\ req'[c].r.body.json
                /\ req'[c].r.body.count <= 0) =>
                 /\ req'[c].pc = "done"
                 /\ req'[c].q = "none"
                 /\ req'[c].status = StatusBadRequest
                 /\ store' = store
          /\ Answered(c, "AddProductToInvoice") =>
                 LET noInvoice == ~Holds(invoice, Named(req[c].r, 4))
                     noProduct == ~Holds(product, Named(req[c].r, 6))
                 IN (noInvoice \/ noProduct) =>
                        /\ invoice_item' = invoice_item
                        /\ req'[c].status = StatusNotFound
                        /\ \/ noProduct /\ req'[c].out =
                                  <<[message |-> "The provided product does not exist"]>>
                           \/ noInvoice /\ req'[c].out =
                                  <<[message |-> "The provided invoice does not exist"]>>]_vars

\* C8: GET /invoices/{id}/products is answered 404 when the path id is the id
\* of no stored invoice, and 200 with an empty list when the invoice is stored
\* and has no items.
C8_ListOfMissingInvoice ==
    \A c \in Clients :
        (req[c].pc = "done" /\ req[c].q = "ListProductsFromInvoice") =>
            LET id == Named(req[c].r, 4)
            IN /\ ~Holds(invoice, id) => req[c].status = StatusNotFound
               /\ (Holds(invoice, id)
                     /\ \A it \in invoice_item : ~IntEquals(id, it.invoice_id)) =>
                      req[c].status = StatusOK /\ req[c].out = <<>>

\* C9: a removal that deleted no invoice item is answered 404, one answered
\* 204 has itself deleted the pair's item; so of the removals of one pair
\* that run concurrently exactly one is answered 204.
C9_OneRemoveSucceeds ==
    \A c \in Clients :
        (req[c].pc = "done" /\ req[c].q = "DeleteProductFromInvoice") =>
            /\ req[c].status \in {StatusNotFound, StatusNoContent}
            /\ req[c].status = StatusNoContent <=> req[c].wrote = "delete"

UniqueNumbers ==
    \A i \in invoice : \A other \in invoice :
        i.invoice_number = other.invoice_number => i = other
\* POST /invoices with a JSON body
IsCreateInvoice(r) ==
    r.method = "POST" /\ r.path = InvoicesApiPrefix /\ r.body.json
NumberStored(number) == \E i \in invoice : i.invoice_number = number

\* C10 as stated: no two stored invoices have the same invoice_number, and
\* every POST /invoices whose invoice_number is that of a stored invoice is
\* answered 409 and adds no row.
C10_DuplicateNumber ==
    /\ []UniqueNumbers
    /\ [][\A c \in Clients :
             /\ (Sent(c) /\ IsCreateInvoice(req'[c].r) /\ req'[c].pc = "done"
                   /\ NumberStored(req'[c].r.body.invoice_number)) =>
                    req'[c].status = StatusConflict /\ invoice' = invoice
             /\ (Committed(c, "CreateInvoice")
                   /\ NumberStored(req[c].r.body.invoice_number)) =>
                    /\ invoice' = invoice
                    /\ req[c].obs => req'[c].status = StatusConflict]_vars

\* C10, amended: no two stored invoices have the same invoice_number, whether
\* set by a create or by an update, and a POST /invoices that passed the
\* handler's validation and whose invoice_number is that of a stored invoice
\* when its INSERT applies is answered 409 and adds no row.
C10_DuplicateNumberOfValidCreate ==
    /\ []UniqueNumbers
    /\ [][\A c \in Clients :
             (Committed(c, "CreateInvoice")
                /\ NumberStored(req[c].r.body.invoice_number)) =>
                 /\ invoice' = invoice
                 /\ req[c].obs => req'[c].status = StatusConflict]_vars

\* A create that found its number free when it was received was answered 409
\* because a concurrent create stored the number first.
C10_Witness ==
    /\ req["c1"].pc = "done"
    /\ req["c1"].q = "CreateInvoice"
    /\ req["c1"].snap = 0
    /\ req["c1"].status = StatusConflict
    /\ NumberStored(req["c1"].r.body.invoice_number)

\* ------------------------------------------- one client, invoices in sequence

SeqInvoiceRequests ==
    { Request("POST", CustomersApiPrefix, CustomerBody(<<"J">>, <<"B">>)),
      Request("POST", InvoicesApiPrefix, InvoiceBody(<<"A">>, 0, 1)),
      Request("POST", InvoicesApiPrefix, InvoiceBody(<<"B">>, 9, 1)),
      Request("DELETE", InvoicesApiPrefix \o <<One>>, NoBody) }
    \cup { Request("PATCH", InvoicesApiPrefix \o <<id>>, InvoiceBody(number, 9, customerId)) :
               id \in {One, Two, Wide}, number \in {<<"A">>, <<"B">>}, customerId \in {1, 2} }

NextSeqInvoices ==
    \E c \in Clients :
        \/ \E r \in SeqInvoiceRequests : CustomersHandler(c, r)
        \/ \E r \in SeqInvoiceRequests : InvoicesHandler(c, r)
        \/ \E r \in SeqInvoiceRequests : InvoiceHandler(c, r)
        \/ CreateCustomer(c)
        \/ CreateInvoice(c)
        \/ UpdateInvoice(c)
        \/ DeleteInvoice(c)

\* One client that creates, renumbers, reassigns and deletes invoices.
SpecSeqInvoices == InitSeq /\ [][NextSeqInvoices]_vars

\* C11: a PATCH of an invoice that passed validation is answered 404 when
\* its path id is the id of no stored invoice, else 409 when its
\* invoice_number is that of another stored invoice, else 400 when its
\* customer_id is the id of no stored customer, and in these cases the
\* invoices are unchanged; otherwise it is answered 200, also when the
\* number is the invoice's own.
C11_UpdateInvoiceOutcomes ==
    [][\A c \in Clients :
          Answered(c, "UpdateInvoice") =>
              LET id == Named(req[c].r, 4)
                  b == req[c].r.body
                  taken == \E other \in invoice :
                               other.invoice_number = b.invoice_number
                               /\ ~IntEquals(id, other.id)
              IN IF ~Holds(invoice, id)
                 THEN req'[c].status = StatusNotFound /\ invoice' = invoice
                 ELSE IF taken
                 THEN req'[c].status = StatusConflict /\ invoice' = invoice
                 ELSE IF b.customer_id \notin Ids(customer)
                 THEN req'[c].status = StatusBadRequest /\ invoice' = invoice
                 ELSE req'[c].status = StatusOK]_vars

Updates == {"UpdateCustomer", "UpdateProduct", "UpdateInvoice"}
\* The sequence behind the ids of the table a query of one row addresses.
IssuedFor(q) ==
    IF q \in {"GetCustomer", "UpdateCustomer", "DeleteCustomer"} THEN seq.customer
    ELSE IF q \in {"GetProduct", "UpdateProduct", "DeleteProduct"} THEN seq.product
    ELSE seq.invoice
\* No row of the table that q addresses was ever created with the id v.
NeverCreated(q, v) == \A n \in 1..IssuedFor(q) : ~IntEquals(v, n)

\* C12: a GET, PATCH (with a payload that passed validation) or DELETE of a
\* customer, product or invoice whose path id was never the id of a row of
\* that table is answered 404 and changes no table.
C12_NeverCreatedIsNotFound ==
    [][\A c \in Clients :
          /\ (Sent(c) /\ req'[c].pc = "done" /\ req'[c].q \in Gets
                /\ NeverCreated(req'[c].q, Named(req'[c].r, 4))) =>
                 req'[c].status = StatusNotFound /\ tables' = tables
          /\ \A q \in Updates \cup Deletes :
                 (Answered(c, q) /\ NeverCreated(q, Named(req[c].r, 4))) =>
                     req'[c].status = StatusNotFound /\ tables' = tables]_vars

\* -------------------------------------------- one client, payloads of writes

\* A name one character longer than the customer columns take.
LongName == [i \in 1..(VarcharName + 1) |-> "x"]

\* Creates with payloads that pass the handlers' validation.
AcceptedCreates ==
    { Request("POST", CustomersApiPrefix, CustomerBody(<<"J">>, <<"B">>)),
      Request("POST", CustomersApiPrefix, CustomerBody(LongName, <<"B">>)),
      Request("POST", InvoicesApiPrefix, InvoiceBody(<<"A">>, 0, 1)),
      Request("POST", InvoicesApiPrefix, InvoiceBody(<<"B">>, 9, 1)),
      Request("POST", InvoicesApiPrefix, InvoiceBody(<<"A">>, 9, 2)),
      Request("POST", InvoicesApiPrefix, ZonedInvoiceBody(<<"B">>, 8, 2, 1)) }
    \cup { Request("POST", ProductsApiPrefix, ProductBody(<<"M">>, price, 1)) :
               price \in { <<"2">>, <<"0", ".", "5">>, <<"1", ".", "0", "0", "5">>,
                           <<"1", "0", "0", "0", "0", "0", "0", "0", "0">>, <<"-", "1">> } }

\* Creates with payloads that a field rule excludes.
RefusedCreates ==
    { Request("POST", CustomersApiPrefix, CustomerBody(<<>>, <<"B">>)),
      Request("POST", CustomersApiPrefix, CustomerBody(<<"J">>, <<" ">>)),
      Request("POST", ProductsApiPrefix, ProductBody(<<" ">>, <<"2">>, 1)),
      Request("POST", ProductsApiPrefix, ProductBody(<<"M">>, <<>>, 1)),
      Request("POST", ProductsApiPrefix, ProductBody(<<"M">>, <<"x">>, 1)),
      Request("POST", ProductsApiPrefix, ProductBody(<<"M">>, <<"2">>, -1)),
      Request("POST", InvoicesApiPrefix, InvoiceBody(<<" ">>, 9, 1)),
      Request("POST", InvoicesApiPrefix, InvoiceBody(<<"A">>, 9, 0)),
      Request("POST", InvoicesApiPrefix, InvoiceBody(<<"A">>, 9, -1)) }

PayloadRequests ==
    AcceptedCreates \cup RefusedCreates
    \cup { Request("DELETE", prefix \o <<One>>, NoBody) :
               prefix \in {CustomersApiPrefix, ProductsApiPrefix, InvoicesApiPrefix} }
    \cup { Request("PATCH", ProductsApiPrefix \o <<One>>, ProductBody(<<"M">>, price, items)) :
               price \in {<<"2">>, <<"-", "1">>}, items \in {1, -1} }
    \cup { Request("POST", InvoicesApiPrefix \o <<One, SegProducts, One>>, ItemBody(count)) :
               count \in {1, 0, -1} }

NextSeqPayloads ==
    \E c \in Clients :
        \/ \E r \in PayloadRequests : CustomersHandler(c, r)
        \/ \E r \in PayloadRequests : CustomerHandler(c, r)
        \/ \E r \in PayloadRequests : ProductsHandler(c, r)
        \/ \E r \in PayloadRequests : ProductHandler(c, r)
        \/ \E r \in PayloadRequests : InvoicesHandler(c, r)
        \/ \E r \in PayloadRequests : InvoiceHandler(c, r)
        \/ CreateCustomer(c)
        \/ DeleteCustomer(c)
        \/ CreateProduct(c)
        \/ UpdateProduct(c)
        \/ DeleteProduct(c)
        \/ CreateInvoice(c)
        \/ DeleteInvoice(c)
        \/ AddProductToInvoice(c)

\* One client that writes with payloads of every kind.
SpecSeqPayloads == InitSeq /\ [][NextSeqPayloads]_vars

\* The instant, in hours of UTC, that the timestamp of the payload b denotes.
PayloadInstant(b) == b.invoice_date - b.invoice_zone

RECURSIVE StripTrailingZeros(_)
StripTrailingZeros(s) ==
    IF s # <<>> /\ s[Len(s)] = "0" THEN StripTrailingZeros(SubSeq(s, 1, Len(s) - 1)) ELSE s
\* Two decimal literals without sign denote the same number.
SameDecimal(s, t) ==
    /\ StripZeros(IntDigits(s)) = StripZeros(IntDigits(t))
    /\ StripTrailingZeros(FracDigits(s)) = StripTrailingZeros(FracDigits(t))

\* C13: a create of a customer, of a product with a price that is not
\* negative, or of an invoice with a free number and a stored customer, whose
\* payload passed validation, is answered 201 with a row whose fields are
\* the payload's (the price as a number, the date when one was given) and
\* whose id is positive and above every id the table's sequence has issued.
C13_CreateReturnsRow ==
    [][\A c \in Clients :
          LET b == req[c].r.body
              row == req'[c].out[1]
              created == req'[c].status = StatusCreated /\ Len(req'[c].out) = 1
          IN /\ Answered(c, "CreateCustomer") =>
                    /\ created
                    /\ row.first_name = b.first_name /\ row.last_name = b.last_name
                    /\ row.id > seq.customer
             /\ (Answered(c, "CreateProduct") /\ Head(b.price) # "-") =>
                    /\ created
                    /\ row.name = b.name /\ row.description = b.description
                    /\ row.available_items = b.available_items
                    /\ SameDecimal(row.price, b.price)
                    /\ row.id > seq.product
             /\ (Answered(c, "CreateInvoice") /\ b.customer_id \in Ids(customer)
                   /\ \A i \in invoice : i.invoice_number # b.invoice_number) =>
                    /\ created
                    /\ row.invoice_number = b.invoice_number
                    /\ row.customer_id = b.customer_id
                    /\ b.invoice_date # 0 => row.invoice_date = PayloadInstant(b)
                    /\ row.id > seq.invoice]_vars

\* The creates alone, one client after another.
NextSeqCreates ==
    \E c \in Clients :
        \/ \E r \in AcceptedCreates \cup RefusedCreates : CustomersHandler(c, r)
        \/ \E r \in AcceptedCreates \cup RefusedCreates : ProductsHandler(c, r)
        \/ \E r \in AcceptedCreates \cup RefusedCreates : InvoicesHandler(c, r)
        \/ CreateCustomer(c)
        \/ CreateProduct(c)
        \/ CreateInvoice(c)
SpecSeqCreates == InitSeq /\ [][NextSeqCreates]_vars

\* POST to a collection with a JSON body
IsCreate(r) ==
    /\ r.method = "POST"
    /\ r.path \in {CustomersApiPrefix, ProductsApiPrefix, InvoicesApiPrefix}
    /\ r.body.json
\* The payload has a required string that is empty after trimming, a price
\* that does not parse, available_items below 0 or a customer_id <= 0.
FailsFieldRule(r) ==
    IF r.path = CustomersApiPrefix
    THEN TrimSpace(r.body.first_name) = <<>> \/ TrimSpace(r.body.last_name) = <<>>
    ELSE IF r.path = ProductsApiPrefix
    THEN \/ TrimSpace(r.body.name) = <<>>
         \/ TrimSpace(r.body.price) = <<>>
         \/ ~ParseFloatOk(r.body.price)
         \/ r.body.available_items < 0
    ELSE TrimSpace(r.body.invoice_number) = <<>> \/ r.body.customer_id <= 0
\* The payload's price parses and is below 0.
PriceBelowZero(r) ==
    /\ r.path = ProductsApiPrefix
    /\ r.body.price # <<>>
    /\ Head(r.body.price) = "-"
    /\ ParseFloatOk(r.body.price)
\* The handler answers the request it receives in this step with 400 and
\* sends no statement.
RefusedUnsent(c) ==
    /\ req'[c].pc = "done"
    /\ req'[c].q = "none"
    /\ req'[c].status = StatusBadRequest
    /\ store' = store

C15_CheckViolationIsBadRequest ==
    [][\A c \in Clients :
          LET b == req[c].r.body
              refused == req'[c].status = StatusBadRequest /\ tables' = tables
          IN  /\ (Answered(c, "CreateProduct")
                    /\ (PriceBelowZero(req[c].r) \/ b.available_items < 0)) =>
                     refused
              /\ (Answered(c, "UpdateProduct")
                    /\ Holds(product, Named(req[c].r, 4))
                    /\ (Head(b.price) = "-" \/ b.available_items < 0)) =>
                     refused
              /\ (Answered(c, "AddProductToInvoice") /\ b.count <= 0) =>
                     refused]_vars

\* Payloads sent both as a create and as an update of the first row.
SamePayloads ==
    RefusedCreates
    \cup { Request("POST", CustomersApiPrefix, CustomerBody(<<"J">>, <<"B">>)),
           Request("POST", ProductsApiPrefix, ProductBody(<<"M">>, <<"2">>, 1)),
           Request("POST", ProductsApiPrefix, ProductBody(<<"M">>, <<"-", "1">>, 1)),
           Request("POST", InvoicesApiPrefix, InvoiceBody(<<"A">>, 0, 1)),
           Request("POST", InvoicesApiPrefix, InvoiceBody(<<"B">>, 9, 1)),
           Request("POST", InvoicesApiPrefix, InvoiceBody(<<"A">>, 9, 2)) }

UpdateRequests ==
    SamePayloads \cup { Request("PATCH", r.path \o <<One>>, r.body) : r \in SamePayloads }

NextSeqUpdates ==
    \E c \in Clients :
        \/ \E r \in UpdateRequests : CustomersHandler(c, r)
        \/ \E r \in UpdateRequests : CustomerHandler(c, r)
        \/ \E r \in UpdateRequests : ProductsHandler(c, r)
        \/ \E r \in UpdateRequests : ProductHandler(c, r)
        \/ \E r \in UpdateRequests : InvoicesHandler(c, r)
        \/ \E r \in UpdateRequests : InvoiceHandler(c, r)
        \/ CreateCustomer(c)
        \/ UpdateCustomer(c)
        \/ CreateProduct(c)
        \/ UpdateProduct(c)
        \/ CreateInvoice(c)
        \/ UpdateInvoice(c)

\* One client that creates and updates with the same payloads.
SpecSeqUpdates == InitSeq /\ [][NextSeqUpdates]_vars

\* PATCH /{collection}/{id} with a JSON body
IsUpdate(r) ==
    /\ r.method = "PATCH"
    /\ Len(r.path) = 4
    /\ SubSeq(r.path, 1, 3) \in {CustomersApiPrefix, ProductsApiPrefix, InvoicesApiPrefix}
    /\ r.body.json
\* The create with the payload of the update r.
AsCreate(r) == [method |-> "POST", path |-> SubSeq(r.path, 1, 3), body |-> r.body]
\* The rows of the collection that the path of r names.
RowsAt(r) ==
    IF r.path[3] = SegCustomers THEN customer
    ELSE IF r.path[3] = SegProducts THEN product
    ELSE invoice
\* Client c is answered in this step.
Ends(c) == req'[c].pc = "done" /\ req'[c] # req[c]
\* The payloads of creates that the API answers with 400 in this state: one
\* that breaks a field rule, a price below 0, and an invoice with a free
\* number whose customer is not stored.
CreateRefused(r) ==
    \/ FailsFieldRule(r)
    \/ PriceBelowZero(r)
    \/ /\ r.path = InvoicesApiPrefix
       /\ ~NumberStored(r.body.invoice_number)
       /\ r.body.customer_id \notin Ids(customer)

\* C16: a create is answered 400 for exactly the payloads of CreateRefused,
\* and an update of a stored row is answered 400 exactly when the create
\* with the same payload is.
C16_UpdateValidatesAsCreate ==
    [][\A c \in Clients :
          Ends(c) =>
              LET r == req'[c].r
                  refused == req'[c].status = StatusBadRequest
              IN  /\ IsCreate(r) => (refused <=> CreateRefused(r))
                  /\ (IsUpdate(r) /\ Holds(RowsAt(r), Named(r, 4))) =>
                         (refused <=> CreateRefused(AsCreate(r)))]_vars

\* The methods a client sends: those some route serves, and one none does.
Methods == {"GET", "POST", "PATCH", "DELETE", "PUT"}
NotANumber == <<"x">>
Mixed == <<"1", "x">>
SegFoo == <<"foo">>

\* Paths of the four shapes the API serves, with stored ids.
WellFormedPaths ==
    {CustomersApiPrefix, ProductsApiPrefix, InvoicesApiPrefix}
    \cup { prefix \o <<One>> :
               prefix \in {CustomersApiPrefix, ProductsApiPrefix, InvoicesApiPrefix} }
    \cup { InvoicesApiPrefix \o <<One, SegProducts>>,
           InvoicesApiPrefix \o <<One, SegProducts, One>> }

\* Paths of the served shapes with an identifier that is no number.
BadIdentifierPaths ==
    { prefix \o <<id>> :
          prefix \in {CustomersApiPrefix, ProductsApiPrefix, InvoicesApiPrefix},
          id \in {NotANumber, Mixed} }
    \cup { InvoicesApiPrefix \o <<NotANumber, SegProducts>>,
           InvoicesApiPrefix \o <<NotANumber, SegProducts, One>>,
           InvoicesApiPrefix \o <<One, SegProducts, NotANumber>>,
           InvoicesApiPrefix \o <<NotANumber, SegProducts, NotANumber>> }

\* Paths of other shapes.
MalformedPaths ==
    { ProductsApiPrefix \o <<NotANumber, One>>,
      CustomersApiPrefix \o <<NotANumber, One>>,
      InvoicesApiPrefix \o <<One, SegFoo>>,
      InvoicesApiPrefix \o <<One, SegProducts, One, One>>,
      ApiPrefix \o <<SegFoo>> }

\* A payload the handlers of the path accept.
BodyFor(path) ==
    IF Len(path) >= 5 /\ path[3] = SegInvoices /\ path[5] = SegProducts THEN ItemBody(1)
    ELSE IF path[3] = SegCustomers THEN CustomerBody(<<"J">>, <<"B">>)
    ELSE IF path[3] = SegProducts THEN ProductBody(<<"M">>, <<"2">>, 1)
    ELSE InvoiceBody(<<"A">>, 9, 1)

RequestsTo(paths) ==
    { Request(method, path, BodyFor(path)) : method \in Methods, path \in paths }

\* The creates of a customer, a product, an invoice and an item.
Creates ==
    { Request("POST", path, BodyFor(path)) :
          path \in {CustomersApiPrefix, ProductsApiPrefix, InvoicesApiPrefix,
                    InvoicesApiPrefix \o <<One, SegProducts, One>>} }

\* The creates, and every method on every path with a bad identifier.
IdentifierRequests == Creates \cup RequestsTo(BadIdentifierPaths)

NextSeqIdentifiers ==
    \E c \in Clients :
        \/ \E r \in IdentifierRequests : CustomersHandler(c, r)
        \/ \E r \in IdentifierRequests : CustomerHandler(c, r)
        \/ \E r \in IdentifierRequests : ProductsHandler(c, r)
        \/ \E r \in IdentifierRequests : ProductHandler(c, r)
        \/ \E r \in IdentifierRequests : InvoicesHandler(c, r)
        \/ \E r \in IdentifierRequests : InvoiceHandler(c, r)
        \/ CreateCustomer(c)
        \/ CreateProduct(c)
        \/ CreateInvoice(c)
        \/ AddProductToInvoice(c)

\* One client that sends every method to paths with a bad identifier.
SpecSeqIdentifiers == InitSeq /\ [][NextSeqIdentifiers]_vars

\* The segment is a base-10 integer: digits after an optional sign.
Base10(seg) ==
    LET digits == IF seg # <<>> /\ Head(seg) \in {"+", "-"} THEN Tail(seg) ELSE seg
    IN  digits # <<>> /\ \A i \in DOMAIN digits : IsDigit(digits[i])
Collections == {CustomersApiPrefix, ProductsApiPrefix, InvoicesApiPrefix}
\* /{collection}/{id}
IsItemPath(path) == Len(path) = 4 /\ SubSeq(path, 1, 3) \in Collections
\* /invoices/{id}/products
IsRelationListPath(path) ==
    Len(path) = 5 /\ SubSeq(path, 1, 3) = InvoicesApiPrefix /\ path[5] = SegProducts
\* /invoices/{id}/products/{product_id}
IsRelationItemPath(path) ==
    Len(path) = 6 /\ SubSeq(path, 1, 3) = InvoicesApiPrefix /\ path[5] = SegProducts
\* An item or relation path one of whose identifiers is not an integer.
BadIdentifier(path) ==
    \/ (IsItemPath(path) \/ IsRelationListPath(path) \/ IsRelationItemPath(path))
          /\ ~Base10(path[4])
    \/ IsRelationItemPath(path) /\ ~Base10(path[6])

\* C17: a request to an item path or to a relation path one of whose
\* identifier segments is not a base-10 integer is answered 400, whatever its
\* method, and no statement is sent to the store.
C17_BadIdentifierRefused ==
    [][\A c \in Clients :
          (Sent(c) /\ BadIdentifier(req'[c].r.path)) =>
              /\ req'[c].pc = "done"
              /\ req'[c].q = "none"
              /\ req'[c].status = StatusBadRequest
              /\ store' = store]_vars

\* A DELETE whose product id is not an integer was answered 400, the invoice
\* it names being stored.
C17_Witness ==
    /\ req["c1"].pc = "done"
    /\ req["c1"].r.method = "DELETE"
    /\ req["c1"].r.path = InvoicesApiPrefix \o <<One, SegProducts, NotANumber>>
    /\ req["c1"].status = StatusBadRequest
    /\ 1 \in Ids(invoice)

\* The creates, and every method on every path of another shape.
ShapeRequests == Creates \cup RequestsTo(MalformedPaths)

NextSeqShapes ==
    \E c \in Clients :
        \/ \E r \in ShapeRequests : CustomersHandler(c, r)
        \/ \E r \in ShapeRequests : CustomerHandler(c, r)
        \/ \E r \in ShapeRequests : ProductsHandler(c, r)
        \/ \E r \in ShapeRequests : ProductHandler(c, r)
        \/ \E r \in ShapeRequests : InvoicesHandler(c, r)
        \/ \E r \in ShapeRequests : InvoiceHandler(c, r)
        \/ \E r \in ShapeRequests : NotFoundHandler(c, r)
        \/ CreateCustomer(c)
        \/ UpdateCustomer(c)
        \/ DeleteCustomer(c)
        \/ CreateProduct(c)
        \/ UpdateProduct(c)
        \/ DeleteProduct(c)
        \/ CreateInvoice(c)
        \/ UpdateInvoice(c)
        \/ DeleteInvoice(c)
        \/ AddProductToInvoice(c)

\* One client that sends every method to paths of shapes the API does not
\* list.
SpecSeqShapes == InitSeq /\ [][NextSeqShapes]_vars

\* The path has one of the four shapes of the API.
ServedShape(path) ==
    \/ path \in Collections
    \/ IsItemPath(path)
    \/ IsRelationListPath(path)
    \/ IsRelationItemPath(path)

\* C18: a request whose path has none of the shapes /{collection},
\* /{collection}/{id}, /invoices/{id}/products and
\* /invoices/{id}/products/{product_id} is answered 404 and no statement is
\* sent to the store.
C18_OtherShapesNotFound ==
    [][\A c \in Clients :
          (Sent(c) /\ ~ServedShape(req'[c].r.path)) =>
              /\ req'[c].pc = "done"
              /\ req'[c].q = "none"
              /\ req'[c].status = StatusNotFound
              /\ store' = store]_vars

\* Every method on every well-formed path.
MethodRequests == RequestsTo(WellFormedPaths)

NextSeqMethods == Step(MethodRequests)

\* One client that sends every method to every path shape of the API.
SpecSeqMethods == InitSeq /\ [][NextSeqMethods]_vars

\* The path has one of the four shapes, with integers for identifiers.
WellFormed(path) ==
    \/ path \in Collections
    \/ /\ IsItemPath(path) \/ IsRelationListPath(path) \/ IsRelationItemPath(path)
       /\ Base10(path[4])
       /\ IsRelationItemPath(path) => Base10(path[6])
\* The methods listed for the shape of the path.
ListedMethods(path) ==
    IF path \in Collections THEN {"GET", "POST"}
    ELSE IF IsItemPath(path) THEN {"GET", "PATCH", "DELETE"}
    ELSE IF IsRelationListPath(path) THEN {"GET"}
    ELSE {"POST", "DELETE"}

\* C19: a request to a well-formed path with a method that is not listed
\* for its shape (collections GET and POST; items GET, PATCH and DELETE;
\* /invoices/{id}/products GET; /invoices/{id}/products/{product_id} POST
\* and DELETE) is answered 405 and no statement is sent to the store.
C19_OtherMethodsNotAllowed ==
    [][\A c \in Clients :
          (Sent(c) /\ WellFormed(req'[c].r.path)
             /\ req'[c].r.method \notin ListedMethods(req'[c].r.path)) =>
              /\ req'[c].pc = "done"
              /\ req'[c].q = "none"
              /\ req'[c].status = StatusMethodNotAllowed
              /\ store' = store]_vars

\* A PATCH of a stored item was answered 405.
C19_Witness ==
    /\ req["c1"].pc = "done"
    /\ req["c1"].r.method = "PATCH"
    /\ req["c1"].r.path = InvoicesApiPrefix \o <<One, SegProducts, One>>
    /\ req["c1"].status = StatusMethodNotAllowed
    /\ invoice_item # {}

\* The statuses of the error table.
ErrorStatuses ==
    {StatusBadRequest, StatusNotFound, StatusConflict, StatusInternalServerError}
\* The statements that write.
Writes ==
    Deletes \cup Updates
    \cup {"CreateCustomer", "CreateProduct", "CreateInvoice", "AddProductToInvoice",
          "DeleteProductFromInvoice"}
\* The request that client c is answered for in this step ended in an
\* error: the handler refused it, its statement wrote nothing, or its read
\* found no row.
EndsInError(c) ==
    \/ req'[c].q = "none"
    \/ req'[c].q \in Writes /\ req'[c].wrote = "none"
    \/ req'[c].q \in Gets /\ req'[c].out = <<>>
\* The statement of client c fails in this step for a reason that is neither
\* a missing row nor a violated constraint: the row it found in its snapshot
\* is gone when it writes, or a name is longer than its column.
FailsOtherwise(c) ==
    /\ req[c].pc = "run"
    /\ \/ /\ req[c].q \in Deletes \cup {"UpdateInvoice"}
          /\ req[c].snap # 0
          /\ req[c].a \notin Ids(TableOf(req[c].q))
       \/ /\ req[c].q = "CreateCustomer"
          /\ \/ Len(req[c].r.body.first_name) > VarcharName
             \/ Len(req[c].r.body.last_name) > VarcharName

\* C20: a request that ends in an error is answered with one of 400, 404,
\* 409 and 500, and a statement that fails for a reason other than a missing
\* row or a recognised constraint is answered with 500.
C20_ErrorResponses ==
    [][\A c \in Clients :
          Ends(c) =>
              /\ EndsInError(c) => req'[c].status \in ErrorStatuses
              /\ FailsOtherwise(c) => req'[c].status = StatusInternalServerError]_vars

\* The rows that differ between two contents of a table.
Diff(old, new) == (old \ new) \cup (new \ old)
\* The request r addresses the row with this id of the collection seg: it
\* creates a row of the collection, or its path names the id.
AddressesRow(r, seg, id) ==
    /\ Len(r.path) >= 3
    /\ r.path[3] = seg
    /\ \/ r.method = "POST" /\ r.path \in Collections
       \/ IsItemPath(r.path) /\ IntEquals(Named(r, 4), id)
\* The request r addresses the item of this invoice and this product.
AddressesItem(r, invoiceId, productId) ==
    /\ IsRelationItemPath(r.path)
    /\ IntEquals(Named(r, 4), invoiceId)
    /\ IntEquals(Named(r, 6), productId)
\* This step changes one row at most.
OneRowAtMost ==
    \/ tables' = tables
    \/ \E T \in {<<customer, customer'>>, <<product, product'>>, <<invoice, invoice'>>,
                 <<invoice_item, invoice_item'>>} :
           /\ \A row1, row2 \in Diff(T[1], T[2]) : row1.id = row2.id
           /\ Cardinality({U \in {<<customer, customer'>>, <<product, product'>>,
                                  <<invoice, invoice'>>, <<invoice_item, invoice_item'>>} :
                               U[1] # U[2]}) = 1

\* C21: a request answered with a 4xx or 5xx status leaves the four tables
\* as they were, and a request answered with a 2xx status changes one row at
\* most, the row it addresses.
C21_NoPartialWrite ==
    [][\A c \in Clients :
          Ends(c) =>
              LET r == req'[c].r
                  status == req'[c].status
              IN  /\ status >= 400 => tables' = tables
                  /\ status < 300 =>
                         /\ OneRowAtMost
                         /\ \A row \in Diff(customer, customer') :
                                AddressesRow(r, SegCustomers, row.id)
                         /\ \A row \in Diff(product, product') :
                                AddressesRow(r, SegProducts, row.id)
                         /\ \A row \in Diff(invoice, invoice') :
                                AddressesRow(r, SegInvoices, row.id)
                         /\ \A it \in Diff(invoice_item, invoice_item') :
                                AddressesItem(r, it.invoice_id, it.product_id)]_vars

\* Creates, updates of the rows created, and reads of them.
EditRequests ==
    { Request("POST", CustomersApiPrefix, CustomerBody(<<"J">>, <<"B">>)),
      Request("POST", ProductsApiPrefix, ProductBody(<<"M">>, <<"2">>, 1)),
      Request("POST", InvoicesApiPrefix, InvoiceBody(<<"A">>, 9, 1)),
      Request("POST", InvoicesApiPrefix, InvoiceBody(<<"B">>, 9, 1)),
      Request("PATCH", CustomersApiPrefix \o <<One>>, CustomerBody(<<"K">>, <<"B">>)),
      Request("PATCH", CustomersApiPrefix \o <<One>>, CustomerBody(LongName, <<"B">>)),
      Request("PATCH", ProductsApiPrefix \o <<One>>, ProductBody(<<"N">>, <<"3">>, 2)),
      Request("PATCH", ProductsApiPrefix \o <<One>>, ProductBody(<<"M">>, <<"-", "1">>, 1)),
      Request("PATCH", ProductsApiPrefix \o <<One>>,
              ProductBody(<<"M">>, <<"1", ".", "0", "0", "5">>, 1)),
      Request("PATCH", InvoicesApiPrefix \o <<One>>, InvoiceBody(<<"C">>, 8, 1)),
      Request("PATCH", InvoicesApiPrefix \o <<One>>, InvoiceBody(<<"B">>, 9, 1)),
      Request("PATCH", InvoicesApiPrefix \o <<One>>, InvoiceBody(<<"A">>, 9, 2)),
      Request("PATCH", InvoicesApiPrefix \o <<Two>>, InvoiceBody(<<"C">>, 8, 1)) }
    \cup { Request("GET", prefix \o <<One>>, NoBody) :
               prefix \in {CustomersApiPrefix, ProductsApiPrefix, InvoicesApiPrefix} }
    \cup { Request("GET", InvoicesApiPrefix \o <<Two>>, NoBody) }

NextSeqEdits ==
    \E c \in Clients :
        \/ \E r \in EditRequests : CustomersHandler(c, r)
        \/ \E r \in EditRequests : CustomerHandler(c, r)
        \/ \E r \in EditRequests : ProductsHandler(c, r)
        \/ \E r \in EditRequests : ProductHandler(c, r)
        \/ \E r \in EditRequests : InvoicesHandler(c, r)
        \/ \E r \in EditRequests : InvoiceHandler(c, r)
        \/ CreateCustomer(c)
        \/ UpdateCustomer(c)
        \/ CreateProduct(c)
        \/ UpdateProduct(c)
        \/ CreateInvoice(c)
        \/ UpdateInvoice(c)

\* One client that creates rows, updates them and reads them.
SpecSeqEdits == InitSeq /\ [][NextSeqEdits]_vars

\* The update that client c's statement carries is one of a stored row, with
\* a price that is not negative and, for an invoice, with a stored customer
\* and a number that no other invoice has.
UpdatesStoredRow(c) ==
    LET r == req[c].r
    IN  /\ req[c].pc = "run"
        /\ req[c].q \in Updates
        /\ Holds(RowsAt(r), Named(r, 4))
        /\ req[c].q = "UpdateProduct" => Head(r.body.price) # "-"
        /\ req[c].q = "UpdateInvoice" =>
               /\ r.body.customer_id \in Ids(customer)
               /\ \A i \in invoice :
                      i.invoice_number = r.body.invoice_number =>
                          IntEquals(Named(r, 4), i.id)
\* The row has the fields of the payload b of an update by the statement q.
FieldsOf(q, row, b) ==
    IF q = "UpdateCustomer"
    THEN row.first_name = b.first_name /\ row.last_name = b.last_name
    ELSE IF q = "UpdateProduct"
    THEN /\ row.name = b.name /\ row.description = b.description
         /\ row.available_items = b.available_items
         /\ SameDecimal(row.price, b.price)
    ELSE /\ row.invoice_number = b.invoice_number
         /\ row.invoice_date = PayloadInstant(b)
         /\ row.customer_id = b.customer_id

\* C22: an update of a stored row whose payload passed validation is
\* answered 200 with a row that has the payload's fields and the id of the
\* path, and changes no row with another id; the GET of the same path that
\* follows it is answered 200 with the same row.
C22_UpdateThenGet ==
    [][\A c \in Clients :
          /\ (UpdatesStoredRow(c) /\ Ends(c)) =>
                 /\ req'[c].status = StatusOK
                 /\ Len(req'[c].out) = 1
                 /\ FieldsOf(req[c].q, req'[c].out[1], req[c].r.body)
                 /\ IntEquals(Named(req[c].r, 4), req'[c].out[1].id)
                 /\ \A row \in Diff(customer, customer') \cup Diff(product, product')
                               \cup Diff(invoice, invoice') :
                        IntEquals(Named(req[c].r, 4), row.id)
                 /\ invoice_item' = invoice_item
          /\ (/\ req[c].pc = "done" /\ req[c].q \in Updates /\ req[c].status = StatusOK
              /\ Sent(c) /\ req'[c].r.method = "GET" /\ req'[c].r.path = req[c].r.path) =>
                 /\ req'[c].status = StatusOK
                 /\ req'[c].out = req[c].out]_vars

\* An invoice item references the product that the path of r names.
ItemsOfNamedProduct(r, items) == {it \in items : IntEquals(Named(r, 4), it.product_id)}

\* C23: the delete of a stored product is answered 409, and the product
\* stays, while an invoice item references it; the delete of a stored item is
\* answered 204 and removes the item; the delete of a stored product that no
\* item references is answered 204 and removes the product.  So, with one
\* referencing item, DELETE product, DELETE item, DELETE product answer 409,
\* 204, 204.
C23_DeleteAfterItemRemoved ==
    [][\A c \in Clients :
          LET r == req[c].r
          IN  /\ (Answered(c, "DeleteProduct") /\ Holds(product, Named(r, 4))) =>
                     IF ItemsOfNamedProduct(r, invoice_item) # {}
                     THEN req'[c].status = StatusConflict /\ tables' = tables
                     ELSE /\ req'[c].status = StatusNoContent
                          /\ ~\E row \in product' : IntEquals(Named(r, 4), row.id)
              /\ (Answered(c, "DeleteProductFromInvoice")
                    /\ NamedPair(r, invoice_item) # {}) =>
                     /\ req'[c].status = StatusNoContent
                     /\ NamedPair(r, invoice_item') = {}]_vars

\* The only item was removed and the product it referenced was then deleted
\* with 204.
C23_Witness ==
    /\ req["c1"].pc = "done"
    /\ req["c1"].q = "DeleteProduct"
    /\ req["c1"].status = StatusNoContent
    /\ req["c1"].wrote = "delete"
    /\ seq.invoice_item >= 1
    /\ invoice_item = {}
    /\ invoice # {}

\* ------------------------------------------------------------- long tables

\* Numbers of rows around the LIMIT of the lists, and numbers of rows
\* deleted before them.
TableSizes == {0, 1, 2, ListLimit - 1, ListLimit, ListLimit + 1, ListLimit + 2}
RowsDeleted == 0..3

\* The store after creates of n + k customers, products and invoices and
\* deletes of the first k of each.
InitLists ==
    \E n \in TableSizes, k \in RowsDeleted :
        /\ customer = {[id |-> id, first_name |-> <<"J">>, last_name |-> <<"B">>] :
                           id \in (k + 1)..(k + n)}
        /\ product = {ProductRow(id, ProductBody(<<"M">>, <<"2">>, 1)) : id \in (k + 1)..(k + n)}
        /\ invoice = {[id |-> id, invoice_number |-> Itoa(id), invoice_date |-> 9,
                       customer_id |-> k + 1] : id \in (k + 1)..(k + n)}
        /\ invoice_item = {}
        /\ seq = [customer |-> k + n, product |-> k + n, invoice |-> k + n,
                  invoice_item |-> 0]
        /\ req = [c \in Clients |-> IF c = "c1" THEN Watched ELSE Off]

NextLists ==
    \E c \in Clients :
        \/ CustomersHandler(c, Request("GET", CustomersApiPrefix, NoBody))
        \/ ProductsHandler(c, Request("GET", ProductsApiPrefix, NoBody))
        \/ InvoicesHandler(c, Request("GET", InvoicesApiPrefix, NoBody))

\* One client that lists tables shorter and longer than the LIMIT.
SpecLists == InitLists /\ [][NextLists]_vars

Lists == {"ListCustomers", "ListProducts", "ListInvoices"}
\* The table a list reads.
ListedTable(q) ==
    IF q = "ListCustomers" THEN customer
    ELSE IF q = "ListProducts" THEN product
    ELSE invoice
Min(a, b) == IF a < b THEN a ELSE b

\* C24: a list of customers, products or invoices is answered 200 with
\* stored rows in ascending order of id, as many as are stored up to 100,
\* and no stored row that is left out has an id below one that is returned.
C24_ListLowestIds ==
    [][\A c \in Clients :
          (Ends(c) /\ req'[c].q \in Lists) =>
              LET rows == ListedTable(req'[c].q)
                  out == req'[c].out
              IN  /\ req'[c].status = StatusOK
                  /\ Len(out) = Min(Cardinality(rows), 100)
                  /\ \A i \in DOMAIN out : out[i].id \in Ids(rows)
                  /\ \A i, j \in DOMAIN out : i < j => out[i].id < out[j].id
                  /\ \A row \in rows :
                         (\A i \in DOMAIN out : out[i].id # row.id) =>
                             \A i \in DOMAIN out : out[i].id < row.id
                  /\ req'[c].q # "ListProducts" => \A i \in DOMAIN out : out[i] \in rows
                  /\ tables' = tables]_vars

\* A list of more than 100 stored customers returned 100 of them.
C24_Witness ==
    /\ req["c1"].pc = "done"
    /\ req["c1"].q = "ListCustomers"
    /\ Cardinality(customer) > 100
    /\ Len(req["c1"].out) = 100

\* C25: a create of an invoice that is answered 201 stores a row whose
\* invoice_date is the time of the creation when the payload has no date,
\* and the instant of the payload's date when it has one.
C25_InvoiceDate ==
    [][\A c \in Clients :
          (Answered(c, "CreateInvoice") /\ req'[c].status = StatusCreated) =>
              LET b == req[c].r.body
                  row == req'[c].out[1]
              IN  /\ row \in invoice'
                  /\ row \notin invoice
                  /\ IF b.invoice_date = 0
                     THEN row.invoice_date \in Clock
                     ELSE row.invoice_date = PayloadInstant(b)]_vars

\* An invoice, products of small and of large price, items of several
\* counts, and the list of the invoice's products.
SumRequests ==
    { Request("POST", CustomersApiPrefix, CustomerBody(<<"J">>, <<"B">>)),
      Request("POST", InvoicesApiPrefix, InvoiceBody(<<"A">>, 9, 1)),
      Request("GET", InvoicesApiPrefix \o <<One, SegProducts>>, NoBody) }
    \cup { Request("POST", ProductsApiPrefix, ProductBody(<<"M">>, price, 1)) :
               price \in { <<"2">>, <<"0", ".", "5">>, <<"1", ".", "9", "9">>,
                           <<"5", "0", "0", "0", "0", "0", "0", "0">>,
                           <<"9", "9", "9", "9", "9", "9", "9", "9", ".", "9", "9">> } }
    \cup { Request("POST", InvoicesApiPrefix \o <<One, SegProducts, productId>>, ItemBody(count)) :
               productId \in {One, Two}, count \in 1..3 }

NextSeqSums ==
    \E c \in Clients :
        \/ \E r \in SumRequests : CustomersHandler(c, r)
        \/ \E r \in SumRequests : ProductsHandler(c, r)
        \/ \E r \in SumRequests : InvoicesHandler(c, r)
        \/ \E r \in SumRequests : InvoiceHandler(c, r)
        \/ CreateCustomer(c)
        \/ CreateProduct(c)
        \/ CreateInvoice(c)
        \/ AddProductToInvoice(c)

\* One client that fills an invoice and lists its products.
SpecSeqSums == InitSeq /\ [][NextSeqSums]_vars

\* The items of the invoice that the path of r names.
ItemsOfNamedInvoice(r) == {it \in invoice_item : IntEquals(Named(r, 4), it.invoice_id)}
\* price times count, as units and hundredths.
Times(price, count) ==
    [neg |-> price.neg, u |-> price.u * count + (price.f * count) \div 100,
     f |-> (price.f * count) % 100]

\* C26: the list of the products of an invoice that has items is answered
\* 200 with one row for each item, in ascending order of product id, 100 at
\* most, each with the item's count and with the sum price times count at
\* two decimal places.
C26_SumIsPriceTimesCount ==
    [][\A c \in Clients :
          (Ends(c) /\ req'[c].q = "ListProductsFromInvoice"
             /\ ItemsOfNamedInvoice(req'[c].r) # {}) =>
              LET items == ItemsOfNamedInvoice(req'[c].r)
                  out == req'[c].out
              IN  /\ req'[c].status = StatusOK
                  /\ Len(out) = Min(Cardinality(items), 100)
                  /\ \A i, j \in DOMAIN out : i < j => out[i].id < out[j].id
                  /\ \A i \in DOMAIN out :
                         \E it \in items, p \in product :
                             /\ p.id = it.product_id
                             /\ out[i].id = p.id
                             /\ out[i].count = it.count
                             /\ out[i].sum = NumericText(Times(p.price, it.count))]_vars

\* The payload of the invoice update r is valid in this state: it passes the
\* field rules, its customer is stored, and no other invoice has its number.
ValidInvoiceUpdate(r) ==
    /\ ~FailsFieldRule(AsCreate(r))
    /\ r.body.customer_id \in Ids(customer)
    /\ \A i \in invoice :
           i.invoice_number = r.body.invoice_number => IntEquals(Named(r, 4), i.id)

\* C27: an update of an invoice with a valid payload is answered 200 or 404,
\* also when a delete of the same invoice runs at the same time, and it is
\* answered 200 only if the invoice is stored after it.
C27_UpdateDuringDelete ==
    [][\A c \in Clients :
          (Running(c, "UpdateInvoice") /\ req'[c].pc = "done"
             /\ ValidInvoiceUpdate(req[c].r)) =>
              /\ req'[c].status \in {StatusOK, StatusNotFound}
              /\ req'[c].status = StatusOK =>
                     \E i \in invoice' : IntEquals(Named(req[c].r, 4), i.id)]_vars

\* The request r reads, updates or deletes the row its path names.
IsRowRequest(r) ==
    /\ IsItemPath(r.path)
    /\ Base10(r.path[4])
    /\ r.method \in {"GET", "PATCH", "DELETE"}

\* The rows the collection that the path of r names has after the step.
RowsAfter(r) ==
    IF r.path[3] = SegCustomers THEN customer'
    ELSE IF r.path[3] = SegProducts THEN product'
    ELSE invoice'

\* C28: a Get, Update or Delete addresses the row whose id is exactly the
\* integer of its path, also one outside the range of 32 bits: it returns and
\* changes no row with another id, and it is answered 404 if no row has the id.
C28_ExactIdentifier ==
    [][\A c \in Clients :
          LET r == req'[c].r
          IN  (Ends(c) /\ IsRowRequest(r)) =>
                  /\ \A row \in Diff(RowsAt(r), RowsAfter(r)) : IntEquals(Named(r, 4), row.id)
                  /\ \A i \in DOMAIN req'[c].out : IntEquals(Named(r, 4), req'[c].out[i].id)
                  /\ (~Holds(RowsAt(r), Named(r, 4))
                        /\ (r.method = "PATCH" => ~CreateRefused(AsCreate(r)))) =>
                         req'[c].status = StatusNotFound]_vars

\* The item requests of an invoice, with counts of every sign.
CountRequests ==
    { Request("POST", InvoicesApiPrefix \o <<One, SegProducts, One>>, ItemBody(count)) :
          count \in {2, 1, 0, -1} }

NextSeqRules ==
    \/ NextSeqUpdates
    \/ \E c \in Clients :
        \/ \E r \in CountRequests : InvoiceHandler(c, r)
        \/ AddProductToInvoice(c)

\* One client that creates and updates rows and items with payloads that
\* keep and that break the rules of the fields.
SpecSeqRules == InitSeq /\ [][NextSeqRules]_vars

\* The string has a character that is not white space.
NonBlank(s) == \E i \in DOMAIN s : s[i] \notin White

\* C29: every stored customer has a first and a last name that are not blank;
\* every stored product a name that is not blank, a price of 0 or more and 0
\* or more available items; every stored invoice a number that is not blank;
\* every stored invoice item a count above 0.
C29_StoredRowsKeepRules ==
    /\ \A row \in customer : NonBlank(row.first_name) /\ NonBlank(row.last_name)
    /\ \A row \in product :
           NonBlank(row.name) /\ ~row.price.neg /\ row.available_items >= 0
    /\ \A row \in invoice : NonBlank(row.invoice_number)
    /\ \A row \in invoice_item : row.count > 0

\* Rows of every table are stored, a product and an invoice after an update
\* with a payload that breaks a rule was refused.
C29_Witness ==
    /\ customer # {} /\ product # {} /\ invoice # {}
    /\ \E row \in invoice_item : row.count > 1
    /\ req["c1"].pc = "done"
    /\ req["c1"].r.method = "PATCH"
    /\ FailsFieldRule(AsCreate(req["c1"].r))
    /\ req["c1"].status = StatusBadRequest

\* The paths that GET reads: a collection, a row of one, the products of an
\* invoice.
ReadPath(path) == path \in Collections \/ IsItemPath(path) \/ IsRelationListPath(path)

\* C30: a GET of a collection, of a row or of the products of an invoice is
\* answered in one step, whatever its status, and no step taken for it
\* changes a row of a table.
C30_GetChangesNothing ==
    [][\A c \in Clients :
          (req'[c] # req[c] /\ req'[c].r.method = "GET" /\ ReadPath(req'[c].r.path)) =>
              /\ req'[c].pc = "done"
              /\ req'[c].wrote = "none"
              /\ tables' = tables]_vars

\* GETs were answered with rows stored: with 200 and the products of an
\* invoice, or with 404 for a row that is not stored.
C30_Witness ==
    /\ customer # {} /\ invoice_item # {}
    /\ req["c1"].pc = "done"
    /\ req["c1"].r.method = "GET"
    /\ \/ /\ IsRelationListPath(req["c1"].r.path)
          /\ req["c1"].status = StatusOK
          /\ req["c1"].out # <<>>
       \/ /\ IsItemPath(req["c1"].r.path)
          /\ req["c1"].status = StatusNotFound

====
